---- MODULE Spec2Model ----
(***************************************************************************)
(* A model of the MTM valuation engine, trading_case/mtm_calculator.py.    *)
(*                                                                         *)
(* One call of compute_mtm_for_date is a run of the state machine: the     *)
(* workbook and the valuation_date argument are chosen by Init, and each   *)
(* action is one step of the function body, in source order.  A step that  *)
(* raises ends the run in pc = "failed" with the exception in error.       *)
(*                                                                         *)
(* Representation.                                                         *)
(*   - A string is a sequence of one-character strings, so that strip and  *)
(*     upper are computed character by character.                          *)
(*   - A number is an exact rational n/d in lowest terms (d > 0); binary   *)
(*     floating point rounding is not modelled.                            *)
(*   - A timestamp is a number of ticks; TicksPerDay ticks make a calendar *)
(*     day and tick 0 of a day is midnight.                                *)
(*   - A cell is a record [tag, n, d, s]; tag "null" stands for an empty   *)
(*     cell, NaN and NaT alike.                                            *)
(*   - A frame is [cols, rows]: the set of column names and the sequence   *)
(*     of rows, each a function from cols to cells.                        *)
(***************************************************************************)
EXTENDS Integers, Sequences, FiniteSets, TLC

\* ------------------------------------------------------------------ bounds
MaxPrices == 2
MaxContracts == 2
MaxTick == 2
TicksPerDay == 2

\* ------------------------------------------------------- MTMConfig (9-40)
price_sheet == "Price"
contracts_sheet == "Contracts"
col_price_date == "Price Date"
col_price_index_name == "Index Name"
col_price_tenor == "Tenor"
col_price_value == "Price"
col_contract_id == "Contract_Ref"
col_contract_index_name == "Base Index"
col_contract_tenor == "Tenor"
col_contract_typical_fe == "Typical Fe"
col_contract_fe_adj_flag == "Fe Adj Flag"
col_contract_cost == "Cost"
col_contract_discount == "Discount"
col_contract_quantity == "Quantity"
col_contract_unit == "Unit"
col_contract_moisture == "Moisture"
col_report_date == "Valuation Date"
col_base_index_price == "Base Index Price"
col_fe_adjustment_ratio == "Fe Adjustment Ratio"
col_quantity_dmt == "Quantity (DMT)"
col_mtm_value == "MTM Value"

\* The reference iron grade of the Fe adjustment (typical_fe / 62.0).
FeReference == 62

\* ------------------------------------------------------------------ numbers
Abs(x) == IF x < 0 THEN -x ELSE x

RECURSIVE GCD(_, _)
GCD(a, b) == IF b = 0 THEN a ELSE GCD(b, a % b)

\* ------------------------------------------------------------------ cells
NULL == [tag |-> "null", n |-> 0, d |-> 1, s |-> <<>>]

Num(p, q) ==
    LET g == GCD(Abs(p), Abs(q))
        sg == IF q < 0 THEN -1 ELSE 1
    IN  [tag |-> "num", n |-> (sg * p) \div g, d |-> (sg * q) \div g, s |-> <<>>]

Whole(k) == Num(k, 1)

Str(chars) == [tag |-> "str", n |-> 0, d |-> 1, s |-> chars]

Ts(t) == [tag |-> "ts", n |-> t, d |-> 1, s |-> <<>>]

IsNull(c) == c.tag = "null"

\* Series arithmetic: a missing operand makes the result missing.
Add(a, b) ==
    IF a.tag = "num" /\ b.tag = "num"
    THEN Num(a.n * b.d + b.n * a.d, a.d * b.d) ELSE NULL

Sub(a, b) ==
    IF a.tag = "num" /\ b.tag = "num"
    THEN Num(a.n * b.d - b.n * a.d, a.d * b.d) ELSE NULL

Mul(a, b) ==
    IF a.tag = "num" /\ b.tag = "num"
    THEN Num(a.n * b.n, a.d * b.d) ELSE NULL

Div(a, b) ==
    IF a.tag = "num" /\ b.tag = "num" /\ b.n # 0
    THEN Num(a.n * b.d, a.d * b.n) ELSE NULL

\* Series.fillna(v)
FillNa(c, v) == IF IsNull(c) THEN v ELSE c

\* ------------------------------------------------------------------ strings
LowerLetters ==
    << "a", "b", "c", "d", "e", "f", "g", "h", "i", "j", "k", "l", "m",
       "n", "o", "p", "q", "r", "s", "t", "u", "v", "w", "x", "y", "z" >>

UpperLetters ==
    << "A", "B", "C", "D", "E", "F", "G", "H", "I", "J", "K", "L", "M",
       "N", "O", "P", "Q", "R", "S", "T", "U", "V", "W", "X", "Y", "Z" >>

Digits == << "0", "1", "2", "3", "4", "5", "6", "7", "8", "9" >>

IsDigit(c) == \E i \in 1..10 : Digits[i] = c

DigitVal(c) == (CHOOSE i \in 1..10 : Digits[i] = c) - 1

UpperChar(c) ==
    IF \E i \in 1..26 : LowerLetters[i] = c
    THEN UpperLetters[CHOOSE i \in 1..26 : LowerLetters[i] = c]
    ELSE c

\* str.upper()
Upper(chars) == [i \in 1..Len(chars) |-> UpperChar(chars[i])]

\* str.strip(): drop the leading and the trailing blanks.
RECURSIVE LStrip(_)
LStrip(chars) ==
    IF chars # <<>> /\ Head(chars) = " " THEN LStrip(Tail(chars)) ELSE chars

RECURSIVE RStrip(_)
RStrip(chars) ==
    IF chars # <<>> /\ chars[Len(chars)] = " "
    THEN RStrip(SubSeq(chars, 1, Len(chars) - 1)) ELSE chars

Strip(chars) == RStrip(LStrip(chars))

RECURSIVE NatToChars(_)
NatToChars(k) ==
    IF k < 10 THEN << Digits[k + 1] >>
    ELSE NatToChars(k \div 10) \o << Digits[(k % 10) + 1] >>

RECURSIVE CharsToNat(_)
CharsToNat(chars) ==
    IF chars = <<>> THEN 0
    ELSE 10 * CharsToNat(SubSeq(chars, 1, Len(chars) - 1))
           + DigitVal(chars[Len(chars)])

IsNumeral(chars) == chars # <<>> /\ \A i \in 1..Len(chars) : IsDigit(chars[i])

\* Series.astype(str): a missing cell becomes the text "nan".
AsStr(c) ==
    CASE c.tag = "str" -> c.s
      [] c.tag = "null" -> << "n", "a", "n" >>
      [] OTHER -> NatToChars(c.n)

ToNumericIgnore(c) ==
    CASE c.tag = "num" -> c
      [] c.tag = "str" -> IF IsNumeral(c.s) THEN Whole(CharsToNat(c.s)) ELSE c
      [] OTHER -> NULL

\* pd.to_numeric(errors="coerce"): text that is no number becomes missing.
ToNumeric(c) ==
    CASE c.tag = "num" -> c
      [] c.tag = "str" -> IF IsNumeral(c.s) THEN Whole(CharsToNat(c.s)) ELSE NULL
      [] OTHER -> NULL

\* pd.to_datetime on one cell.  A date text is written here as the numeral
\* of its calendar day and denotes that day's midnight; any other text is
\* unparseable.
DateParses(c) == c.tag # "str" \/ IsNumeral(c.s)

ToDatetime(c) ==
    CASE c.tag = "ts" -> c
      [] c.tag = "str" -> Ts(CharsToNat(c.s) * TicksPerDay)
      [] OTHER -> NULL

\* Timestamp.normalize(): the midnight of the timestamp's day.
Normalize(t) == Ts(t.n - (t.n % TicksPerDay))

\* Lexicographic order of strings by character code (blank, digits, upper
\* case, lower case), as sort_values orders an object column of strings.
Alphabet == << " " >> \o Digits \o UpperLetters \o LowerLetters

CharCode(c) ==
    IF \E i \in 1..Len(Alphabet) : Alphabet[i] = c
    THEN CHOOSE i \in 1..Len(Alphabet) : Alphabet[i] = c
    ELSE 0

RECURSIVE StrLess(_, _)
StrLess(a, b) ==
    IF b = <<>> THEN FALSE
    ELSE IF a = <<>> THEN TRUE
    ELSE IF CharCode(Head(a)) # CharCode(Head(b))
         THEN CharCode(Head(a)) < CharCode(Head(b))
         ELSE StrLess(Tail(a), Tail(b))

\* ------------------------------------------------------------------ frames
EmptyFrame == [cols |-> {}, rows |-> <<>>]

\* ------------------------------------------------------------------ errors
\* The table part of an answer: None, or a frame given by its rows.
NoTable == [null |-> TRUE, rows |-> << >>]

Table(rows) == [null |-> FALSE, rows |-> rows]

NoError == [kind |-> "none", what |-> ""]

Raise(kind, what) == [err |-> [kind |-> kind, what |-> what], val |-> EmptyFrame]

Return(v) == [err |-> NoError, val |-> v]

\* ------------------------------------------------------------------ state
VARIABLES
    wb,                  \* the workbook at excel_path: sheets, price, contracts
    valuation_date_arg,  \* the valuation_date argument: NULL is None
    pc,                  \* the position in compute_mtm_for_date
    prices_raw,          \* the Price sheet as read
    contracts_raw,       \* the Contracts sheet as read
    prices,              \* the normalised Price frame
    contracts,           \* the normalised Contracts frame
    valuation_date,      \* the resolved valuation date
    base_price_series,   \* one cell per contract
    fe_adj_ratio,        \* one cell per contract
    qty_dmt,             \* one cell per contract
    result,              \* the returned frame
    error,               \* the exception that ended the call
    question,            \* answer_question: the question, word by word
    daily,               \* answer_question: the Daily table
    monthly,             \* answer_question: the Monthly table
    wx_pc,               \* the position in answer_question
    intent,              \* the dict returned by parse_question
    queries,             \* the queries answer_question has executed
    answer,              \* the (text, table) pair returned
    disk,                \* the files of the front end's working directory
    requests             \* the trading valuation requests in progress

mtm_vars == << wb, valuation_date_arg, pc, prices_raw, contracts_raw,
               prices, contracts, valuation_date,
               base_price_series, fe_adj_ratio, qty_dmt, result, error >>

weather_vars == << question, daily, monthly, wx_pc, intent, queries, answer >>

server_vars == << disk, requests >>

vars == << mtm_vars, weather_vars, server_vars >>

\* ------------------------------------------------------ normalisation
StripStrFolded(c) == Str(Strip(Upper(AsStr(c))))

StripStr(c) == Str(Strip(AsStr(c)))

UpperStripStr(c) == Str(Strip(Upper(AsStr(c))))

NormalisePriceCell(col, c) ==
    CASE col = col_price_date -> ToDatetime(c)
      [] col \in { col_price_index_name, col_price_tenor } -> StripStr(c)
      [] col = col_price_value -> ToNumeric(c)
      [] OTHER -> c

\* Each column is read, and so must exist, in the order of the assignments;
\* to_datetime raises on the first text that is no date.
_normalise_price_df(df) ==
    IF col_price_date \notin df.cols THEN Raise("KeyError", col_price_date)
    ELSE IF \E i \in 1..Len(df.rows) : ~DateParses(df.rows[i][col_price_date])
    THEN Raise("ValueError", "unparseable date")
    ELSE IF col_price_index_name \notin df.cols
    THEN Raise("KeyError", col_price_index_name)
    ELSE IF col_price_tenor \notin df.cols
    THEN Raise("KeyError", col_price_tenor)
    ELSE IF col_price_value \notin df.cols
    THEN Raise("KeyError", col_price_value)
    ELSE Return(
        [df EXCEPT !.rows = [i \in 1..Len(df.rows) |->
            [col \in df.cols |-> NormalisePriceCell(col, df.rows[i][col])]]])

NumericContractCols ==
    { col_contract_typical_fe, col_contract_cost, col_contract_discount,
      col_contract_quantity, col_contract_moisture }

NormaliseContractCell(col, c) ==
    CASE col \in { col_contract_index_name, col_contract_tenor } -> StripStr(c)
      [] col \in NumericContractCols -> ToNumeric(c)
      [] col = col_contract_unit -> UpperStripStr(c)
      [] col = col_contract_fe_adj_flag -> StripStr(c)
      [] OTHER -> c

_normalise_contracts_df_misnamed(df) ==
    IF col_contract_index_name \notin df.cols
    THEN Raise("KeyError", col_contract_tenor)
    ELSE IF col_contract_tenor \notin df.cols
    THEN Raise("KeyError", col_contract_index_name)
    ELSE Return(
        [df EXCEPT !.rows = [i \in 1..Len(df.rows) |->
            [col \in df.cols |-> NormaliseContractCell(col, df.rows[i][col])]]])

_normalise_contracts_df(df) ==
    IF col_contract_index_name \notin df.cols
    THEN Raise("KeyError", col_contract_index_name)
    ELSE IF col_contract_tenor \notin df.cols
    THEN Raise("KeyError", col_contract_tenor)
    ELSE Return(
        [df EXCEPT !.rows = [i \in 1..Len(df.rows) |->
            [col \in df.cols |-> NormaliseContractCell(col, df.rows[i][col])]]])

\* ------------------------------------------------------ price resolution
OnOrBeforeStrict(row, vd) ==
    /\ row[col_price_date].tag = "ts"
    /\ vd.tag = "ts"
    /\ row[col_price_date].n < vd.n

\* prices[prices[date] <= valuation_date]: a comparison with a missing date,
\* on either side, is false.
OnOrBefore(row, vd) ==
    /\ row[col_price_date].tag = "ts"
    /\ vd.tag = "ts"
    /\ row[col_price_date].n <= vd.n

PriceKey(row) == << row[col_price_index_name].s, row[col_price_tenor].s >>

\* The order of sort_values([index name, tenor, date]).
PriceRowLess(r1, r2) ==
    LET a == r1[col_price_index_name].s
        b == r2[col_price_index_name].s
        ta == r1[col_price_tenor].s
        tb == r2[col_price_tenor].s
    IN  IF a # b THEN StrLess(a, b)
        ELSE IF ta # tb THEN StrLess(ta, tb)
        ELSE r1[col_price_date].n < r2[col_price_date].n

\* Insert r behind every row that is not greater: the sort is stable.
RECURSIVE InsertSorted(_, _)
InsertSorted(rows, r) ==
    IF rows = <<>> THEN << r >>
    ELSE IF PriceRowLess(r, Head(rows)) THEN << r >> \o rows
    ELSE << Head(rows) >> \o InsertSorted(Tail(rows), r)

RECURSIVE SortValues(_)
SortValues(rows) ==
    IF rows = <<>> THEN <<>>
    ELSE InsertSorted(SortValues(SubSeq(rows, 1, Len(rows) - 1)), rows[Len(rows)])

\* groupby([index name, tenor]).tail(1): the last row of every group.
GroupTail(rows) ==
    LET IsLast(i) == \A j \in (i + 1)..Len(rows) : PriceKey(rows[j]) # PriceKey(rows[i])
    IN  SelectSeq([i \in 1..Len(rows) |-> [row |-> rows[i], last |-> IsLast(i)]],
                  LAMBDA e : e.last)

LatestPrices(prs, vd) ==
    LET kept == SelectSeq(prs.rows, LAMBDA r : OnOrBefore(r, vd))
        tails == GroupTail(SortValues(kept))
    IN  [i \in 1..Len(tails) |-> tails[i].row]

ContractKey(row) ==
    << Strip(AsStr(row[col_contract_index_name])),
       Strip(AsStr(row[col_contract_tenor])) >>

\* latest_prices.reindex(idx)[price]: the price under the contract's key,
\* missing when the key is not in the index.
Reindex(latest, key) ==
    IF \E i \in 1..Len(latest) : PriceKey(latest[i]) = key
    THEN latest[CHOOSE i \in 1..Len(latest) : PriceKey(latest[i]) = key][col_price_value]
    ELSE NULL

_lookup_base_price_for_contracts(prs, cts, vd) ==
    LET latest == LatestPrices(prs, vd)
    IN  [i \in 1..Len(cts.rows) |-> Reindex(latest, ContractKey(cts.rows[i]))]

\* ------------------------------------------------------ Fe adjustment
NoAdj == << "N", "O", "A", "D", "J" >>

FeRatioOfRowNoOverride(cts, row) ==
    IF col_contract_typical_fe \in cts.cols
    THEN FillNa(Div(row[col_contract_typical_fe], Whole(FeReference)), Whole(1))
    ELSE Whole(1)

FeRatioOfRow(cts, row) ==
    LET no_adj == /\ col_contract_fe_adj_flag \in cts.cols
                  /\ Upper(AsStr(row[col_contract_fe_adj_flag])) = NoAdj
        ratio == IF col_contract_typical_fe \in cts.cols
                 THEN FillNa(Div(row[col_contract_typical_fe], Whole(FeReference)),
                             Whole(1))
                 ELSE Whole(1)
    IN  IF no_adj THEN Whole(1) ELSE ratio

_compute_fe_adjustment_ratio(cts) ==
    [i \in 1..Len(cts.rows) |-> FeRatioOfRow(cts, cts.rows[i])]

\* ------------------------------------------------------ quantity
Wmt == << "W", "M", "T" >>

QuantityDmtOfRowAllWet(cts, row) ==
    IF col_contract_quantity \notin cts.cols THEN NULL
    ELSE LET qty == ToNumeric(row[col_contract_quantity])
         IN  IF col_contract_unit \notin cts.cols THEN qty
             ELSE IF col_contract_moisture \in cts.cols
                  THEN Mul(qty, Sub(Whole(1),
                           FillNa(ToNumeric(row[col_contract_moisture]), Whole(0))))
                  ELSE qty

QuantityDmtOfRow(cts, row) ==
    IF col_contract_quantity \notin cts.cols THEN NULL
    ELSE LET qty == ToNumeric(row[col_contract_quantity])
         IN  IF col_contract_unit \notin cts.cols THEN qty
             ELSE LET wmt == Strip(Upper(AsStr(row[col_contract_unit]))) = Wmt
                  IN  IF col_contract_moisture \in cts.cols /\ wmt
                      THEN Mul(qty, Sub(Whole(1),
                               FillNa(ToNumeric(row[col_contract_moisture]), Whole(0))))
                      ELSE qty

_compute_quantity_dmt(cts) ==
    [i \in 1..Len(cts.rows) |-> QuantityDmtOfRow(cts, cts.rows[i])]

\* ------------------------------------------------------ valuation
CostOfRowNoDefault(cts, row) ==
    IF col_contract_cost \in cts.cols
    THEN FillNa(ToNumeric(row[col_contract_cost]), Whole(0)) ELSE NULL

\* contracts.get(col, default), then to_numeric(...).fillna(default)
CostOfRow(cts, row) ==
    IF col_contract_cost \in cts.cols
    THEN FillNa(ToNumeric(row[col_contract_cost]), Whole(0)) ELSE Whole(0)

DiscountOfRowNoFill(cts, row) ==
    IF col_contract_discount \in cts.cols
    THEN ToNumeric(row[col_contract_discount]) ELSE Whole(1)

DiscountOfRow(cts, row) ==
    IF col_contract_discount \in cts.cols
    THEN FillNa(ToNumeric(row[col_contract_discount]), Whole(1)) ELSE Whole(1)

MtmValueCostAfterDiscount(base, ratio, cost, discount, quantity) ==
    Mul(Add(Mul(Mul(base, ratio), discount), cost), quantity)

\* (Base Index Price x Fe Adjustment Ratio + Cost) x Discount x Quantity(DMT)
MtmValue(base, ratio, cost, discount, quantity) ==
    Mul(Mul(Add(Mul(base, ratio), cost), discount), quantity)

DerivedCols ==
    { col_base_index_price, col_fe_adjustment_ratio, col_quantity_dmt,
      col_mtm_value, col_report_date }

AssembleInnerJoin(cts, base, ratio, quantity, vd) ==
    LET kept == SelectSeq([i \in 1..Len(cts.rows) |-> i],
                          LAMBDA i : ~IsNull(base[i]))
    IN  [cols |-> cts.cols \cup DerivedCols,
         rows |-> [k \in 1..Len(kept) |->
            [col \in cts.cols \cup DerivedCols |->
                CASE col = col_base_index_price -> base[kept[k]]
                  [] col = col_fe_adjustment_ratio -> ratio[kept[k]]
                  [] col = col_quantity_dmt -> quantity[kept[k]]
                  [] col = col_mtm_value ->
                        MtmValue(base[kept[k]], ratio[kept[k]],
                                 CostOfRow(cts, cts.rows[kept[k]]),
                                 DiscountOfRow(cts, cts.rows[kept[k]]),
                                 quantity[kept[k]])
                  [] col = col_report_date -> Normalize(vd)
                  [] OTHER -> cts.rows[kept[k]][col]]]]

\* result = contracts.copy() with the derived columns assigned by row label.
Assemble(cts, base, ratio, quantity, vd) ==
    [cols |-> cts.cols \cup DerivedCols,
     rows |-> [i \in 1..Len(cts.rows) |->
        [col \in cts.cols \cup DerivedCols |->
            CASE col = col_base_index_price -> base[i]
              [] col = col_fe_adjustment_ratio -> ratio[i]
              [] col = col_quantity_dmt -> quantity[i]
              [] col = col_mtm_value ->
                    MtmValue(base[i], ratio[i], CostOfRow(cts, cts.rows[i]),
                             DiscountOfRow(cts, cts.rows[i]), quantity[i])
              [] col = col_report_date -> Normalize(vd)
              [] OTHER -> cts.rows[i][col]]]]

MinPriceDate(prs) ==
    LET ds == { prs.rows[i][col_price_date].n : i \in
                  { j \in 1..Len(prs.rows) : prs.rows[j][col_price_date].tag = "ts" } }
    IN  IF ds = {} THEN NULL ELSE Ts(CHOOSE t \in ds : \A u \in ds : t <= u)

\* prices[date].max(): the greatest date present, missing when there is none.
MaxPriceDate(prs) ==
    LET ds == { prs.rows[i][col_price_date].n : i \in
                  { j \in 1..Len(prs.rows) : prs.rows[j][col_price_date].tag = "ts" } }
    IN  IF ds = {} THEN NULL ELSE Ts(CHOOSE t \in ds : \A u \in ds : u <= t)

\* ------------------------------------------------------ compute_mtm_for_date
\* xls = pd.ExcelFile(excel_path); read_excel of the two sheets.  A sheet the
\* workbook lacks raises ValueError("Worksheet named '...' not found").
ReadExcel ==
    /\ pc = "read_excel"
    /\ UNCHANGED << weather_vars, server_vars >>
    /\ IF price_sheet \notin wb.sheets
       THEN /\ pc' = "failed"
            /\ error' = [kind |-> "ValueError", what |-> price_sheet]
            /\ UNCHANGED << prices_raw, contracts_raw >>
       ELSE IF contracts_sheet \notin wb.sheets
       THEN /\ pc' = "failed"
            /\ error' = [kind |-> "ValueError", what |-> contracts_sheet]
            /\ UNCHANGED << prices_raw, contracts_raw >>
       ELSE /\ pc' = "normalise_prices"
            /\ prices_raw' = wb.price
            /\ contracts_raw' = wb.contracts
            /\ UNCHANGED error
    /\ UNCHANGED << wb, valuation_date_arg, prices, contracts, valuation_date,
                    base_price_series, fe_adj_ratio, qty_dmt, result >>

NormalisePrices ==
    /\ pc = "normalise_prices"
    /\ UNCHANGED << weather_vars, server_vars >>
    /\ LET r == _normalise_price_df(prices_raw)
       IN  IF r.err # NoError
           THEN pc' = "failed" /\ error' = r.err /\ UNCHANGED prices
           ELSE pc' = "normalise_contracts" /\ prices' = r.val /\ UNCHANGED error
    /\ UNCHANGED << wb, valuation_date_arg, prices_raw, contracts_raw, contracts,
                    valuation_date, base_price_series, fe_adj_ratio, qty_dmt,
                    result >>

NormaliseContracts ==
    /\ pc = "normalise_contracts"
    /\ UNCHANGED << weather_vars, server_vars >>
    /\ LET r == _normalise_contracts_df(contracts_raw)
       IN  IF r.err # NoError
           THEN pc' = "failed" /\ error' = r.err /\ UNCHANGED contracts
           ELSE pc' = "valuation_date" /\ contracts' = r.val /\ UNCHANGED error
    /\ UNCHANGED << wb, valuation_date_arg, prices_raw, contracts_raw, prices,
                    valuation_date, base_price_series, fe_adj_ratio, qty_dmt,
                    result >>

\* if valuation_date is None: valuation_date = prices[date].max()
\* valuation_date = pd.to_datetime(valuation_date)
ResolveValuationDate ==
    /\ pc = "valuation_date"
    /\ UNCHANGED << weather_vars, server_vars >>
    /\ LET given == IF IsNull(valuation_date_arg)
                    THEN MaxPriceDate(prices) ELSE valuation_date_arg
       IN  IF ~DateParses(given)
           THEN /\ pc' = "failed"
                /\ error' = [kind |-> "ValueError", what |-> "unparseable date"]
                /\ UNCHANGED valuation_date
           ELSE /\ pc' = "lookup_base_price"
                /\ valuation_date' = ToDatetime(given)
                /\ UNCHANGED error
    /\ UNCHANGED << wb, valuation_date_arg, prices_raw, contracts_raw, prices,
                    contracts, base_price_series, fe_adj_ratio, qty_dmt, result >>

LookupBasePrice ==
    /\ pc = "lookup_base_price"
    /\ UNCHANGED << weather_vars, server_vars >>
    /\ base_price_series' =
           _lookup_base_price_for_contracts(prices, contracts, valuation_date)
    /\ pc' = "fe_adjustment_ratio"
    /\ UNCHANGED << wb, valuation_date_arg, prices_raw, contracts_raw, prices,
                    contracts, valuation_date, fe_adj_ratio, qty_dmt, result,
                    error >>

ComputeFeAdjustmentRatio ==
    /\ pc = "fe_adjustment_ratio"
    /\ UNCHANGED << weather_vars, server_vars >>
    /\ fe_adj_ratio' = _compute_fe_adjustment_ratio(contracts)
    /\ pc' = "quantity_dmt"
    /\ UNCHANGED << wb, valuation_date_arg, prices_raw, contracts_raw, prices,
                    contracts, valuation_date, base_price_series, qty_dmt, result,
                    error >>

ComputeQuantityDmt ==
    /\ pc = "quantity_dmt"
    /\ UNCHANGED << weather_vars, server_vars >>
    /\ qty_dmt' = _compute_quantity_dmt(contracts)
    /\ pc' = "compose"
    /\ UNCHANGED << wb, valuation_date_arg, prices_raw, contracts_raw, prices,
                    contracts, valuation_date, base_price_series, fe_adj_ratio,
                    result, error >>

\* The valuation and the assembly of the report.  valuation_date.normalize()
\* is the last step: NaT has no normalize method, so a missing valuation date
\* raises AttributeError there.
ComposeReport ==
    /\ pc = "compose"
    /\ UNCHANGED << weather_vars, server_vars >>
    /\ IF IsNull(valuation_date)
       THEN /\ pc' = "failed"
            /\ error' = [kind |-> "AttributeError", what |-> "normalize"]
            /\ UNCHANGED result
       ELSE /\ pc' = "done"
            /\ result' = Assemble(contracts, base_price_series, fe_adj_ratio,
                                  qty_dmt, valuation_date)
            /\ UNCHANGED error
    /\ UNCHANGED << wb, valuation_date_arg, prices_raw, contracts_raw, prices,
                    contracts, valuation_date, base_price_series, fe_adj_ratio,
                    qty_dmt >>

Next ==
    \/ ReadExcel
    \/ NormalisePrices
    \/ NormaliseContracts
    \/ ResolveValuationDate
    \/ LookupBasePrice
    \/ ComputeFeAdjustmentRatio
    \/ ComputeQuantityDmt
    \/ ComposeReport

\* ------------------------------------------------------------------ inputs
PriceCols ==
    { col_price_date, col_price_index_name, col_price_tenor, col_price_value }

RequiredContractCols ==
    { col_contract_index_name, col_contract_tenor, col_contract_typical_fe,
      col_contract_quantity }

OptionalContractCols ==
    { col_contract_fe_adj_flag, col_contract_cost, col_contract_discount,
      col_contract_moisture, col_contract_unit }

ContractCols == { col_contract_id } \cup RequiredContractCols \cup OptionalContractCols

PriceRow(date, index_name, tenor, price) ==
    [col \in PriceCols |->
        CASE col = col_price_date -> date
          [] col = col_price_index_name -> index_name
          [] col = col_price_tenor -> tenor
          [] OTHER -> price]

\* f: the cells of one contract by field name.
ContractRow(i, f) ==
    [col \in ContractCols |->
        CASE col = col_contract_id -> Str(<< "c" >> \o NatToChars(i))
          [] col = col_contract_index_name -> f.index_name
          [] col = col_contract_tenor -> f.tenor
          [] col = col_contract_typical_fe -> f.typical_fe
          [] col = col_contract_fe_adj_flag -> f.fe_adj_flag
          [] col = col_contract_cost -> f.cost
          [] col = col_contract_discount -> f.discount
          [] col = col_contract_quantity -> f.quantity
          [] col = col_contract_unit -> f.unit
          [] OTHER -> f.moisture]

\* A sheet with the columns cols and one row per element of rows.
Sheet(cols, rows) ==
    [cols |-> cols,
     rows |-> [i \in 1..Len(rows) |-> [col \in cols |-> rows[i][col]]]]

Workbook(sheets, price, contract) ==
    [sheets |-> sheets, price |-> price, contracts |-> contract]

BothSheets == { price_sheet, contracts_sheet }

SeqsUpTo(S, k) == UNION { [1..m -> S] : m \in 0..k }

ContractRows(F, k) ==
    { [i \in 1..Len(fs) |-> ContractRow(i, fs[i])] : fs \in SeqsUpTo(F, k) }

IndexA == Str(<< "A" >>)
IndexB == Str(<< "B" >>)
IndexC == Str(<< "C" >>)
TenorX == Str(<< "X" >>)
Garbage == Str(<< "x" >>)

Timestamps == { Ts(t) : t \in 0..MaxTick }

\* A contract of the sample data: a wet tonnage of grade 31 on index A.
SampleContract ==
    [index_name |-> IndexA, tenor |-> TenorX, typical_fe |-> Whole(31),
     fe_adj_flag |-> NULL, cost |-> Whole(5), discount |-> Num(49, 50),
     quantity |-> Whole(100), unit |-> Str(<< "W", "M", "T" >>),
     moisture |-> Num(1, 10)]

SamplePrices == << PriceRow(Ts(0), IndexA, TenorX, Whole(100)) >>

\* No question is being answered.
WeatherIdle ==
    /\ question = <<>>
    /\ daily = <<>>
    /\ monthly = <<>>
    /\ wx_pc = "idle"
    /\ intent = [type |-> "none"]
    /\ queries = <<>>
    /\ answer = [text |-> [template |-> "none"], table |-> NoTable]

\* No request is in progress and the working directory is empty.
ServerIdle ==
    /\ disk = << >>
    /\ requests = << >>

InitCall(workbooks, dates) ==
    /\ wb \in workbooks
    /\ valuation_date_arg \in dates
    /\ pc = "read_excel"
    /\ prices_raw = EmptyFrame
    /\ contracts_raw = EmptyFrame
    /\ prices = EmptyFrame
    /\ contracts = EmptyFrame
    /\ valuation_date = NULL
    /\ base_price_series = <<>>
    /\ fe_adj_ratio = <<>>
    /\ qty_dmt = <<>>
    /\ result = EmptyFrame
    /\ error = NoError
    /\ WeatherIdle
    /\ ServerIdle

\* Price resolution: every price table of at most MaxPrices rows on two
\* index names, valued for one contract at every date or at the default.
PriceTables ==
    SeqsUpTo({ PriceRow(d, IndexA, TenorX, p) :
                 d \in Timestamps, p \in { Whole(100), Whole(110), Garbage } }
             \cup { PriceRow(d, IndexB, TenorX, Whole(100)) : d \in Timestamps },
             MaxPrices)

InitPrice ==
    InitCall(
        { Workbook(BothSheets, Sheet(PriceCols, ps), Sheet(ContractCols, cs)) :
            ps \in PriceTables,
            cs \in ContractRows({ [SampleContract EXCEPT !.index_name = ix] :
                                    ix \in { IndexA, IndexB } }, 1) },
        { NULL } \cup Timestamps)

SpecPrice == InitPrice /\ [][Next]_vars

Spec == SpecPrice

\* Row preservation: contracts on matched and unmatched keys against price
\* tables with no, one or several rows per key.
InitRows ==
    InitCall(
        { Workbook(BothSheets, Sheet(PriceCols, ps), Sheet(ContractCols, cs)) :
            ps \in SeqsUpTo({ PriceRow(Ts(0), IndexA, TenorX, Whole(100)),
                              PriceRow(Ts(1), IndexA, TenorX, Whole(110)),
                              PriceRow(Ts(0), IndexB, TenorX, Whole(100)) },
                            MaxPrices),
            cs \in ContractRows({ [SampleContract EXCEPT !.index_name = ix] :
                                    ix \in { IndexA, IndexB, IndexC } },
                                MaxContracts) },
        { NULL, Ts(1) })

SpecRows == InitRows /\ [][Next]_vars

\* Valuation: contracts with and without a cost, a discount, a matching
\* price and a moisture correction.
InitValue ==
    InitCall(
        { Workbook(BothSheets, Sheet(PriceCols, SamplePrices), Sheet(ContractCols, cs)) :
            cs \in ContractRows(
                { [SampleContract EXCEPT !.index_name = ix, !.cost = c,
                                         !.discount = dc, !.unit = u] :
                    ix \in { IndexA, IndexC },
                    c \in { Whole(5), NULL },
                    dc \in { Num(49, 50), NULL },
                    u \in { Str(<< "W", "M", "T" >>), Str(<< "D", "M", "T" >>) } },
                MaxContracts) },
        { NULL })

SpecValue == InitValue /\ [][Next]_vars

\* Fe adjustment: grades and flags of every kind, with and without the two
\* columns.
InitFe ==
    InitCall(
        { Workbook(BothSheets, Sheet(PriceCols, SamplePrices),
                   Sheet(ContractCols \ absent, cs)) :
            absent \in SUBSET { col_contract_fe_adj_flag, col_contract_typical_fe },
            cs \in ContractRows(
                { [SampleContract EXCEPT !.typical_fe = fe, !.fe_adj_flag = fl] :
                    fe \in { Whole(62), Whole(31), NULL, Garbage },
                    fl \in { Str(<< "N", "O", "A", "D", "J" >>),
                             Str(<< "N", "o", "A", "d", "j" >>),
                             Str(<< " ", "n", "o", "a", "d", "j", " " >>),
                             Str(<< "A", "D", "J" >>),
                             NULL } },
                MaxContracts) },
        { NULL })

SpecFe == InitFe /\ [][Next]_vars

\* Quantity conversion: units of every spelling and moistures, with and
\* without the two columns.
InitQty ==
    InitCall(
        { Workbook(BothSheets, Sheet(PriceCols, SamplePrices),
                   Sheet(ContractCols \ absent, cs)) :
            absent \in SUBSET { col_contract_unit, col_contract_moisture },
            cs \in ContractRows(
                { [SampleContract EXCEPT !.quantity = q, !.unit = u, !.moisture = m] :
                    q \in { Whole(100), Garbage },
                    u \in { Str(<< "D", "M", "T" >>),
                            Str(<< "W", "M", "T" >>),
                            Str(<< " ", "w", "m", "t", " " >>),
                            Str(<< "d", "m", "t", " " >>),
                            NULL },
                    m \in { Num(1, 10), NULL } },
                MaxContracts) },
        { NULL })

SpecQty == InitQty /\ [][Next]_vars

\* Schema: workbooks that lack a sheet, a price column or any set of
\* contract columns.
FlaggedContract ==
    [SampleContract EXCEPT !.fe_adj_flag = Str(<< "N", "o", "A", "d", "j" >>)]

InitSchema ==
    InitCall(
        { Workbook(sheets, Sheet(PriceCols \ pa, SamplePrices),
                   Sheet(ContractCols \ ca, << ContractRow(1, FlaggedContract) >>)) :
            sheets \in SUBSET BothSheets,
            pa \in { {} } \cup { { col } : col \in PriceCols },
            ca \in SUBSET (RequiredContractCols \cup OptionalContractCols) },
        { NULL, Ts(0) })

SpecSchema == InitSchema /\ [][Next]_vars

\* Formats: dates and numbers that are timestamps, numerals, empty or
\* unparseable text, in the Price sheet, the Contracts sheet and the argument.
DayOne == Str(<< "1" >>)

InitFormat ==
    InitCall(
        { Workbook(BothSheets, Sheet(PriceCols, ps),
                   Sheet(ContractCols, << ContractRow(1, c) >>)) :
            ps \in SeqsUpTo({ PriceRow(d, IndexA, TenorX, p) :
                                d \in { Ts(0), NULL, DayOne, Garbage },
                                p \in { Whole(100), Garbage } }, MaxPrices),
            c \in { [SampleContract EXCEPT !.typical_fe = fe, !.cost = co,
                                           !.discount = dc, !.quantity = q,
                                           !.moisture = m] :
                      fe \in { Whole(31), Garbage }, co \in { Whole(5), Garbage },
                      dc \in { Num(49, 50), Garbage }, q \in { Whole(100), Garbage },
                      m \in { Num(1, 10), Garbage } } },
        { NULL, Ts(1), DayOne, Garbage })

SpecFormat == InitFormat /\ [][Next]_vars

\* Null operands: contracts with one operand empty at a time, none empty and
\* all empty; index C has no price record.
NullOperandContracts ==
    { SampleContract,
      [SampleContract EXCEPT !.index_name = IndexC],
      [SampleContract EXCEPT !.typical_fe = NULL],
      [SampleContract EXCEPT !.cost = NULL],
      [SampleContract EXCEPT !.discount = NULL],
      [SampleContract EXCEPT !.quantity = NULL],
      [SampleContract EXCEPT !.index_name = IndexC, !.typical_fe = NULL,
                             !.cost = NULL, !.discount = NULL, !.quantity = NULL] }

InitNulls ==
    InitCall(
        { Workbook(BothSheets, Sheet(PriceCols, ps), Sheet(ContractCols, cs)) :
            ps \in { SamplePrices, << PriceRow(Ts(0), IndexA, TenorX, NULL) >> },
            cs \in ContractRows(NullOperandContracts, MaxContracts) },
        { NULL, Ts(0) })

SpecNulls == InitNulls /\ [][Next]_vars

\* Lookup keys: index names and tenors that differ by surrounding blanks or
\* by letter case, each price record with a price of its own.
KeyPriceRows ==
    { PriceRow(Ts(0), Str(<< " ", "A", " " >>), TenorX, Whole(100)),
      PriceRow(Ts(0), Str(<< "a" >>), TenorX, Whole(110)),
      PriceRow(Ts(0), IndexA, Str(<< "x" >>), Whole(120)),
      PriceRow(Ts(0), IndexA, Str(<< " ", "X" >>), Whole(130)),
      PriceRow(Ts(0), IndexB, TenorX, Whole(140)) }

KeyContracts ==
    { [SampleContract EXCEPT !.index_name = ix, !.tenor = tn] :
        ix \in { IndexA, Str(<< "a", " " >>) }, tn \in { TenorX, Str(<< "x" >>) } }

InitKeys ==
    InitCall(
        { Workbook(BothSheets, Sheet(PriceCols, ps), Sheet(ContractCols, cs)) :
            ps \in SeqsUpTo(KeyPriceRows, MaxPrices),
            cs \in ContractRows(KeyContracts, MaxContracts) },
        { NULL, Ts(0) })

SpecKeys == InitKeys /\ [][Next]_vars

\* Empty keys: contracts and price records whose index name or tenor cell is
\* empty, and a price record whose index name is the text nan.
NullKeyPriceRows ==
    { PriceRow(Ts(0), NULL, TenorX, Whole(100)),
      PriceRow(Ts(0), IndexA, NULL, Whole(110)),
      PriceRow(Ts(0), Str(<< "n", "a", "n" >>), TenorX, Whole(120)),
      PriceRow(Ts(0), IndexA, TenorX, Whole(130)) }

NullKeyContracts ==
    { [SampleContract EXCEPT !.index_name = ix, !.tenor = tn] :
        ix \in { IndexA, NULL }, tn \in { TenorX, NULL } }

InitNullKeys ==
    InitCall(
        { Workbook(BothSheets, Sheet(PriceCols, ps), Sheet(ContractCols, cs)) :
            ps \in SeqsUpTo(NullKeyPriceRows, MaxPrices),
            cs \in ContractRows(NullKeyContracts, MaxContracts) },
        { NULL, Ts(0) })

SpecNullKeys == InitNullKeys /\ [][Next]_vars

\* ================================================== weather assistant
\* A question is the sequence of its words (the maximal runs of non-blank
\* characters), each word a sequence of characters; the blanks between two
\* words are what \\s+ matches.

LowerChar(c) ==
    IF \E i \in 1..26 : UpperLetters[i] = c
    THEN LowerLetters[CHOOSE i \in 1..26 : UpperLetters[i] = c]
    ELSE c

\* str.lower()
Lower(chars) == [i \in 1..Len(chars) |-> LowerChar(chars[i])]

\* str.casefold(), on ASCII text
CaseFold(chars) == Lower(chars)

IsLetter(c) == \E i \in 1..26 : LowerLetters[i] = c \/ UpperLetters[i] = c

\* str.title(): a letter that follows a non-letter is upper-cased, every
\* other letter lower-cased.
Title(chars) ==
    [i \in 1..Len(chars) |->
        IF i = 1 \/ ~IsLetter(chars[i - 1])
        THEN UpperChar(chars[i]) ELSE LowerChar(chars[i])]

\* " ".join(words)
RECURSIVE JoinWords(_)
JoinWords(words) ==
    IF words = << >> THEN << >>
    ELSE IF Len(words) = 1 THEN words[1]
    ELSE words[1] \o << " " >> \o JoinWords(Tail(words))

\* re.split(",+", word) without the empty pieces
RECURSIVE SplitCommas(_, _)
SplitCommas(chars, piece) ==
    IF chars = << >>
    THEN IF piece = << >> THEN << >> ELSE << piece >>
    ELSE IF Head(chars) = ","
    THEN (IF piece = << >> THEN << >> ELSE << piece >>)
             \o SplitCommas(Tail(chars), << >>)
    ELSE SplitCommas(Tail(chars), Append(piece, Head(chars)))

\* [a-z]+
IsLetters(word) ==
    word # << >> /\ \A i \in 1..Len(word) : \E k \in 1..26 : LowerLetters[k] = word[i]

\* [a-z,]+
IsLettersOrCommas(word) ==
    /\ word # << >>
    /\ \A i \in 1..Len(word) :
          word[i] = "," \/ \E k \in 1..26 : LowerLetters[k] = word[i]

\* \w+ on lower-cased ASCII text
IsWordChars(word) ==
    /\ word # << >>
    /\ \A i \in 1..Len(word) :
          \/ word[i] = "_"
          \/ IsDigit(word[i])
          \/ \E k \in 1..26 : LowerLetters[k] = word[i]

\* \d{4} as a whole word
IsYearWord(word) == Len(word) = 4 /\ \A i \in 1..4 : IsDigit(word[i])

\* \d{4} at the start of a word, which nothing has to end
StartsWithYear(word) == Len(word) >= 4 /\ \A i \in 1..4 : IsDigit(word[i])

\* a literal that the pattern does not anchor on its left
EndsWith(word, literal) ==
    /\ Len(word) >= Len(literal)
    /\ SubSeq(word, Len(word) - Len(literal) + 1, Len(word)) = literal

MONTH_NAME_TO_NUM ==
    << << "j", "a", "n", "u", "a", "r", "y" >>,
       << "f", "e", "b", "r", "u", "a", "r", "y" >>,
       << "m", "a", "r", "c", "h" >>,
       << "a", "p", "r", "i", "l" >>,
       << "m", "a", "y" >>,
       << "j", "u", "n", "e" >>,
       << "j", "u", "l", "y" >>,
       << "a", "u", "g", "u", "s", "t" >>,
       << "s", "e", "p", "t", "e", "m", "b", "e", "r" >>,
       << "o", "c", "t", "o", "b", "e", "r" >>,
       << "n", "o", "v", "e", "m", "b", "e", "r" >>,
       << "d", "e", "c", "e", "m", "b", "e", "r" >> >>

IsMonthName(name) == \E k \in 1..12 : MONTH_NAME_TO_NUM[k] = name

MonthNum(name) == CHOOSE k \in 1..12 : MONTH_NAME_TO_NUM[k] = name

\* month_nums: the numbers of the pieces that are month names, in order
RECURSIVE MonthNums(_)
MonthNums(names) ==
    IF names = << >> THEN << >>
    ELSE (IF IsMonthName(Head(names)) THEN << MonthNum(Head(names)) >> ELSE << >>)
             \o MonthNums(Tail(names))

RECURSIVE MonthPieces(_)
MonthPieces(words) ==
    IF words = << >> THEN << >>
    ELSE SplitCommas(Head(words), << >>) \o MonthPieces(Tail(words))

week_map ==
    << << "f", "i", "r", "s", "t" >>,
       << "s", "e", "c", "o", "n", "d" >>,
       << "t", "h", "i", "r", "d" >>,
       << "f", "o", "u", "r", "t", "h" >>,
       << "f", "i", "f", "t", "h" >> >>

DefaultWeek == 2

\* week_map.get(week_word, 2)
WeekNum(word) ==
    IF \E k \in 1..Len(week_map) : week_map[k] = word
    THEN CHOOSE k \in 1..Len(week_map) : week_map[k] = word
    ELSE DefaultWeek

\* Pattern 1 matched with the literal district ending word i, the district in
\* the words up to the literal in at word j, the months up to the literal
\* from at word k:
\*   district\\s+([a-z\\s]+?)\\s+in\\s+each\\s+([a-z\\s,]+)\\s+from\\s+year
\*   \\s+(\\d{4})\\s+to\\s+(\\d{4})
Pattern1At(q, i, j, k) ==
    /\ EndsWith(q[i], << "d", "i", "s", "t", "r", "i", "c", "t" >>)
    /\ i + 2 <= j
    /\ \A t \in (i + 1)..(j - 1) : IsLetters(q[t])
    /\ q[j] = << "i", "n" >>
    /\ j + 3 <= k
    /\ q[j + 1] = << "e", "a", "c", "h" >>
    /\ \A t \in (j + 2)..(k - 1) : IsLettersOrCommas(q[t])
    /\ q[k] = << "f", "r", "o", "m" >>
    /\ k + 4 <= Len(q)
    /\ q[k + 1] = << "y", "e", "a", "r" >>
    /\ IsYearWord(q[k + 2])
    /\ q[k + 3] = << "t", "o" >>
    /\ StartsWithYear(q[k + 4])

\* the places where the three literals can stand, then the matches
Pattern1Matches(q) ==
    LET is == { i \in 1..Len(q) : EndsWith(q[i], << "d", "i", "s", "t", "r", "i", "c", "t" >>) }
        js == { j \in 1..Len(q) : q[j] = << "i", "n" >> }
        ks == { k \in 1..Len(q) : q[k] = << "f", "r", "o", "m" >> }
    IN  { m \in is \X js \X ks : Pattern1At(q, m[1], m[2], m[3]) }

\* re.search: the leftmost match, the lazy group as short and then the
\* greedy group as long as a match allows.
Pattern1Search(q) ==
    LET ms == Pattern1Matches(q)
        i == CHOOSE a \in { m[1] : m \in ms } : \A m \in ms : a <= m[1]
        j == CHOOSE b \in { m[2] : m \in { n \in ms : n[1] = i } } :
                 \A m \in { n \in ms : n[1] = i } : b <= m[2]
        k == CHOOSE c \in { m[3] : m \in { n \in ms : n[1] = i /\ n[2] = j } } :
                 \A m \in { n \in ms : n[1] = i /\ n[2] = j } : m[3] <= c
    IN  << i, j, k >>

\* Pattern 2 matched with the literal state ending word i, the first state in
\* the words up to the literal and at word j, the second state up to the
\* literal in at word k:
\*   state\\s+([a-z\\s]+?)\\s+and\\s+state\\s+([a-z\\s]+?)\\s+in\\s+the
\*   \\s+(\\w+)\\s+week\\s+of\\s+([a-z]+)\\s+(\\d{4})
Pattern2At(q, i, j, k) ==
    /\ EndsWith(q[i], << "s", "t", "a", "t", "e" >>)
    /\ i + 2 <= j
    /\ \A t \in (i + 1)..(j - 1) : IsLetters(q[t])
    /\ q[j] = << "a", "n", "d" >>
    /\ j + 3 <= k
    /\ q[j + 1] = << "s", "t", "a", "t", "e" >>
    /\ \A t \in (j + 2)..(k - 1) : IsLetters(q[t])
    /\ q[k] = << "i", "n" >>
    /\ k + 6 <= Len(q)
    /\ q[k + 1] = << "t", "h", "e" >>
    /\ IsWordChars(q[k + 2])
    /\ q[k + 3] = << "w", "e", "e", "k" >>
    /\ q[k + 4] = << "o", "f" >>
    /\ IsLetters(q[k + 5])
    /\ StartsWithYear(q[k + 6])

Pattern2Matches(q) ==
    LET is == { i \in 1..Len(q) : EndsWith(q[i], << "s", "t", "a", "t", "e" >>) }
        js == { j \in 1..Len(q) : q[j] = << "a", "n", "d" >> }
        ks == { k \in 1..Len(q) : q[k] = << "i", "n" >> }
    IN  { m \in is \X js \X ks : Pattern2At(q, m[1], m[2], m[3]) }

\* the leftmost match, both lazy groups as short as a match allows
Pattern2Search(q) ==
    LET ms == Pattern2Matches(q)
        i == CHOOSE a \in { m[1] : m \in ms } : \A m \in ms : a <= m[1]
        j == CHOOSE b \in { m[2] : m \in { n \in ms : n[1] = i } } :
                 \A m \in { n \in ms : n[1] = i } : b <= m[2]
        k == CHOOSE c \in { m[3] : m \in { n \in ms : n[1] = i /\ n[2] = j } } :
                 \A m \in { n \in ms : n[1] = i /\ n[2] = j } : c <= m[3]
    IN  << i, j, k >>

\* q = question.strip().lower(), word by word
LowerWords(words) == [t \in 1..Len(words) |-> Lower(words[t])]

parse_question_weekly_first(words) ==
    LET q == LowerWords(words)
    IN  IF Pattern2Matches(q) # {}
        THEN LET m == Pattern2Search(q)
             IN  [type |-> "weekly_state_compare",
                  state_a |-> Title(JoinWords(SubSeq(q, m[1] + 1, m[2] - 1))),
                  state_b |-> Title(JoinWords(SubSeq(q, m[2] + 2, m[3] - 1))),
                  iso_week |-> WeekNum(q[m[3] + 2]),
                  month |-> IF IsMonthName(q[m[3] + 5])
                            THEN Whole(MonthNum(q[m[3] + 5])) ELSE NULL,
                  year |-> CharsToNat(SubSeq(q[m[3] + 6], 1, 4))]
        ELSE IF Pattern1Matches(q) # {}
        THEN LET m == Pattern1Search(q)
             IN  [type |-> "monthly_district",
                  district |-> Title(JoinWords(SubSeq(q, m[1] + 1, m[2] - 1))),
                  months |-> MonthNums(MonthPieces(SubSeq(q, m[2] + 2, m[3] - 1))),
                  start_year |-> CharsToNat(q[m[3] + 2]),
                  end_year |-> CharsToNat(SubSeq(q[m[3] + 4], 1, 4))]
        ELSE [type |-> "unknown"]

parse_question(words) ==
    LET q == LowerWords(words)
    IN  IF Pattern1Matches(q) # {}
        THEN LET m == Pattern1Search(q)
             IN  [type |-> "monthly_district",
                  district |-> Title(JoinWords(SubSeq(q, m[1] + 1, m[2] - 1))),
                  months |-> MonthNums(MonthPieces(SubSeq(q, m[2] + 2, m[3] - 1))),
                  start_year |-> CharsToNat(q[m[3] + 2]),
                  end_year |-> CharsToNat(SubSeq(q[m[3] + 4], 1, 4))]
        ELSE IF Pattern2Matches(q) # {}
        THEN LET m == Pattern2Search(q)
             IN  [type |-> "weekly_state_compare",
                  state_a |-> Title(JoinWords(SubSeq(q, m[1] + 1, m[2] - 1))),
                  state_b |-> Title(JoinWords(SubSeq(q, m[2] + 2, m[3] - 1))),
                  iso_week |-> WeekNum(q[m[3] + 2]),
                  month |-> IF IsMonthName(q[m[3] + 5])
                            THEN Whole(MonthNum(q[m[3] + 5])) ELSE NULL,
                  year |-> CharsToNat(SubSeq(q[m[3] + 6], 1, 4))]
        ELSE [type |-> "unknown"]

\* --------------------------------------------------- the calendar
\* A Daily date is [y, m, d].  dt.year is y and dt.isocalendar().week is
\* the ISO 8601 week number, computed on the proleptic Gregorian ordinal.
IsLeap(y) == y % 4 = 0 /\ (y % 100 # 0 \/ y % 400 = 0)

DaysInMonth(y, m) ==
    IF m = 2 THEN (IF IsLeap(y) THEN 29 ELSE 28)
    ELSE IF m \in { 4, 6, 9, 11 } THEN 30 ELSE 31

DaysBeforeYear(y) ==
    (y - 1) * 365 + ((y - 1) \div 4) - ((y - 1) \div 100) + ((y - 1) \div 400)

RECURSIVE DaysBeforeMonth(_, _)
DaysBeforeMonth(y, m) ==
    IF m = 1 THEN 0 ELSE DaysBeforeMonth(y, m - 1) + DaysInMonth(y, m - 1)

\* 1 for 1 January of year 1, a Monday
ToOrdinal(date) == DaysBeforeYear(date.y) + DaysBeforeMonth(date.y, date.m) + date.d

\* the ordinal of the Monday that starts ISO week 1 of year y: the week that
\* holds the year's first Thursday
IsoWeek1Monday(y) ==
    LET firstday == DaysBeforeYear(y) + 1
        firstweekday == (firstday + 6) % 7
        monday == firstday - firstweekday
    IN  IF firstweekday > 3 THEN monday + 7 ELSE monday

\* isocalendar(): the ISO year and the ISO week of a date
IsoCalendar(date) ==
    LET today == ToOrdinal(date)
    IN  IF today < IsoWeek1Monday(date.y)
        THEN [year |-> date.y - 1,
              week |-> ((today - IsoWeek1Monday(date.y - 1)) \div 7) + 1]
        ELSE IF today >= IsoWeek1Monday(date.y + 1)
        THEN [year |-> date.y + 1, week |-> 1]
        ELSE [year |-> date.y,
              week |-> ((today - IsoWeek1Monday(date.y)) \div 7) + 1]

\* --------------------------------------------------- the two queries
\* Precipitation amounts are counted in hundredths of a unit.
RECURSIVE SumPrecip(_)
SumPrecip(rows) ==
    IF rows = << >> THEN 0 ELSE Head(rows).precip + SumPrecip(Tail(rows))

\* f"{total:.2f}"
Format2f(hundredths) ==
    NatToChars(hundredths \div 100) \o << ".", Digits[((hundredths \div 10) % 10) + 1],
                                           Digits[(hundredths % 10) + 1] >>

MonthlyLess(r1, r2) ==
    \/ r1.year < r2.year
    \/ r1.year = r2.year /\ r1.month < r2.month

\* sort_values([Year, Month]): rows of equal key keep their order
RECURSIVE InsertMonthly(_, _)
InsertMonthly(rows, r) ==
    IF rows = << >> THEN << r >>
    ELSE IF MonthlyLess(r, Head(rows)) THEN << r >> \o rows
    ELSE << Head(rows) >> \o InsertMonthly(Tail(rows), r)

RECURSIVE SortMonthly(_)
SortMonthly(rows) ==
    IF rows = << >> THEN << >>
    ELSE InsertMonthly(SortMonthly(SubSeq(rows, 1, Len(rows) - 1)), rows[Len(rows)])

IsIn(x, list) == \E k \in 1..Len(list) : list[k] = x

query_monthly_precip_by_district_open_end(table, district, months, start_year, end_year) ==
    SortMonthly(SelectSeq(table, LAMBDA r :
        /\ CaseFold(r.district) = CaseFold(Strip(district))
        /\ IsIn(r.month, months)
        /\ r.year >= start_year
        /\ r.year < end_year))

query_monthly_precip_by_district(table, district, months, start_year, end_year) ==
    SortMonthly(SelectSeq(table, LAMBDA r :
        /\ CaseFold(r.district) = CaseFold(Strip(district))
        /\ IsIn(r.month, months)
        /\ r.year >= start_year
        /\ r.year <= end_year))

\* lines 114-122: the Daily rows of the state, the year and the week number
WeeklyFiltered(table, state, iso_year, iso_week) ==
    SelectSeq(table, LAMBDA r :
        /\ CaseFold(r.state) = CaseFold(Strip(state))
        /\ r.date.y = iso_year
        /\ IsoCalendar(r.date).week = iso_week)

\* the group keys of groupby, in ascending order
RECURSIVE SortedTexts(_)
SortedTexts(S) ==
    IF S = {} THEN << >>
    ELSE LET least == CHOOSE a \in S : \A b \in S \ { a } : StrLess(a, b)
         IN  << least >> \o SortedTexts(S \ { least })

\* groupby([State, Year, ISO_Week]).sum(): one row per spelling of the state
GroupRows(df, key) == SelectSeq(df, LAMBDA r : r.state = key)

query_weekly_precip_by_state(table, state, iso_year, iso_week) ==
    LET df == WeeklyFiltered(table, state, iso_year, iso_week)
        keys == SortedTexts({ df[n].state : n \in 1..Len(df) })
    IN  [g \in 1..Len(keys) |->
            [state |-> keys[g], year |-> iso_year, iso_week |-> iso_week,
             total |-> SumPrecip(GroupRows(df, keys[g]))]]

\* --------------------------------------------------- answer_question
\* intent = parse_question(question)
ParseQuestion ==
    /\ wx_pc = "parse"
    /\ intent' = parse_question(question)
    /\ wx_pc' = "dispatch"
    /\ UNCHANGED << question, daily, monthly, queries, answer >>
    /\ UNCHANGED << mtm_vars, server_vars >>

\* if intent["type"] == "monthly_district": lines 248-269
AnswerMonthly ==
    /\ wx_pc = "dispatch"
    /\ intent.type = "monthly_district"
    /\ LET df == query_monthly_precip_by_district(monthly, intent.district,
                      intent.months, intent.start_year, intent.end_year)
       IN  /\ queries' = Append(queries,
                  [fn |-> "query_monthly_precip_by_district",
                   district |-> intent.district, months |-> intent.months,
                   start_year |-> intent.start_year, end_year |-> intent.end_year])
           /\ answer' =
                  IF df = << >>
                  THEN [text |-> [template |-> "No monthly precipitation data found",
                                  district |-> intent.district],
                        table |-> NoTable]
                  ELSE [text |-> [template |-> "Total precipitation in district",
                                  district |-> intent.district,
                                  months |-> intent.months,
                                  start_year |-> intent.start_year,
                                  end_year |-> intent.end_year,
                                  total |-> Format2f(SumPrecip(df))],
                        table |-> Table(df)]
    /\ wx_pc' = "done"
    /\ UNCHANGED << question, daily, monthly, intent >>
    /\ UNCHANGED << mtm_vars, server_vars >>

\* total_a, total_b: the Total Weekly Precipitation of the first row of the
\* grouped frame, 0.0 when it has no row
FirstTotal(grouped) == IF grouped = << >> THEN 0 ELSE grouped[1].total

\* if intent["type"] == "weekly_state_compare": lines 271-314
AnswerWeekly ==
    /\ wx_pc = "dispatch"
    /\ intent.type = "weekly_state_compare"
    /\ LET df_a == query_weekly_precip_by_state(daily, intent.state_a,
                        intent.year, intent.iso_week)
           df_b == query_weekly_precip_by_state(daily, intent.state_b,
                        intent.year, intent.iso_week)
       IN  /\ queries' = queries \o
                  << [fn |-> "query_weekly_precip_by_state", state |-> intent.state_a,
                      iso_year |-> intent.year, iso_week |-> intent.iso_week],
                     [fn |-> "query_weekly_precip_by_state", state |-> intent.state_b,
                      iso_year |-> intent.year, iso_week |-> intent.iso_week] >>
           /\ answer' =
                  IF df_a = << >> /\ df_b = << >>
                  THEN [text |-> [template |-> "No weekly precipitation data found"],
                        table |-> NoTable]
                  ELSE [text |-> [template |-> "In week",
                                  iso_week |-> intent.iso_week, year |-> intent.year,
                                  state_a |-> intent.state_a,
                                  total_a |-> Format2f(FirstTotal(df_a)),
                                  state_b |-> intent.state_b,
                                  total_b |-> Format2f(FirstTotal(df_b))],
                        table |-> Table(
                            << [state |-> intent.state_a, total |-> FirstTotal(df_a),
                                year |-> intent.year, iso_week |-> intent.iso_week],
                               [state |-> intent.state_b, total |-> FirstTotal(df_b),
                                year |-> intent.year, iso_week |-> intent.iso_week] >>)]
    /\ wx_pc' = "done"
    /\ UNCHANGED << question, daily, monthly, intent >>
    /\ UNCHANGED << mtm_vars, server_vars >>

\* neither type: the fixed text and no table, lines 316-320
AnswerUnknown ==
    /\ wx_pc = "dispatch"
    /\ intent.type \notin { "monthly_district", "weekly_state_compare" }
    /\ answer' = [text |-> [template |-> "I could not understand this question"],
                  table |-> NoTable]
    /\ wx_pc' = "done"
    /\ UNCHANGED << question, daily, monthly, intent, queries >>
    /\ UNCHANGED << mtm_vars, server_vars >>

NextWeather ==
    \/ ParseQuestion
    \/ AnswerMonthly
    \/ AnswerWeekly
    \/ AnswerUnknown

\* --------------------------------------------------- weather inputs
MaxMonthly == 2
MaxDaily == 2

\* No valuation is being computed.
MtmIdle ==
    /\ wb = Workbook({}, EmptyFrame, EmptyFrame)
    /\ valuation_date_arg = NULL
    /\ pc = "idle"
    /\ prices_raw = EmptyFrame
    /\ contracts_raw = EmptyFrame
    /\ prices = EmptyFrame
    /\ contracts = EmptyFrame
    /\ valuation_date = NULL
    /\ base_price_series = <<>>
    /\ fe_adj_ratio = <<>>
    /\ qty_dmt = <<>>
    /\ result = EmptyFrame
    /\ error = NoError

MonthlyRow(year, month, district, precip) ==
    [year |-> year, month |-> month, state |-> << "U", "P" >>,
     district |-> district, precip |-> precip]

DailyRow(y, m, d, state, precip) ==
    [date |-> [y |-> y, m |-> m, d |-> d], state |-> state,
     district |-> << "P", "a", "n", "a", "j", "i" >>, precip |-> precip]

Agra == << "A", "g", "r", "a" >>
AGRA == << "A", "G", "R", "A" >>
Pune == << "P", "u", "n", "e" >>
Goa == << "G", "o", "a" >>
GOA == << "G", "O", "A" >>
Bihar == << "B", "i", "h", "a", "r" >>

\* Pattern 1 questions
AskAgraTwoMonths ==
    << << "T", "o", "t", "a", "l" >>, << "o", "f" >>,
       << "d", "i", "s", "t", "r", "i", "c", "t" >>,
       << "A", "g", "r", "a" >>, << "i", "n" >>, << "e", "a", "c", "h" >>,
       << "A", "u", "g", "u", "s", "t" >>, << "a", "n", "d" >>,
       << "S", "e", "p", "t", "e", "m", "b", "e", "r" >>,
       << "f", "r", "o", "m" >>, << "y", "e", "a", "r" >>,
       << "2", "0", "0", "1" >>, << "t", "o" >>, << "2", "0", "0", "2" >> >>

AskPuneAbbreviated ==
    << << "d", "i", "s", "t", "r", "i", "c", "t" >>,
       << "p", "u", "n", "e" >>, << "i", "n" >>, << "e", "a", "c", "h" >>,
       << "A", "u", "g", "," >>,
       << "s", "e", "p", "t", "e", "m", "b", "e", "r" >>,
       << "f", "r", "o", "m" >>, << "y", "e", "a", "r" >>,
       << "2", "0", "0", "2" >>, << "t", "o" >>, << "2", "0", "0", "3" >> >>

AskAgraNoYears ==
    << << "d", "i", "s", "t", "r", "i", "c", "t" >>,
       << "a", "g", "r", "a" >>, << "i", "n" >>, << "e", "a", "c", "h" >>,
       << "a", "u", "g", "u", "s", "t" >>, << "f", "r", "o", "m" >>,
       << "y", "e", "a", "r" >>, << "2", "0", "0", "3" >>, << "t", "o" >>,
       << "2", "0", "0", "1" >> >>

\* Pattern 2 questions
AskFirstWeekJanuary ==
    << << "C", "o", "m", "p", "a", "r", "e" >>,
       << "s", "t", "a", "t", "e" >>, << "G", "o", "a" >>,
       << "a", "n", "d" >>, << "s", "t", "a", "t", "e" >>,
       << "B", "i", "h", "a", "r" >>, << "i", "n" >>, << "t", "h", "e" >>,
       << "f", "i", "r", "s", "t" >>, << "w", "e", "e", "k" >>,
       << "o", "f" >>, << "J", "a", "n", "u", "a", "r", "y" >>,
       << "2", "0", "2", "4" >> >>

AskFirstWeekMarch ==
    << << "C", "o", "m", "p", "a", "r", "e" >>,
       << "s", "t", "a", "t", "e" >>, << "G", "o", "a" >>,
       << "a", "n", "d" >>, << "s", "t", "a", "t", "e" >>,
       << "B", "i", "h", "a", "r" >>, << "i", "n" >>, << "t", "h", "e" >>,
       << "f", "i", "r", "s", "t" >>, << "w", "e", "e", "k" >>,
       << "o", "f" >>, << "M", "a", "r", "c", "h" >>,
       << "2", "0", "2", "4" >> >>

AskSecondWeek ==
    << << "s", "t", "a", "t", "e" >>, << "g", "o", "a" >>,
       << "a", "n", "d" >>, << "s", "t", "a", "t", "e" >>,
       << "b", "i", "h", "a", "r" >>, << "i", "n" >>, << "t", "h", "e" >>,
       << "s", "e", "c", "o", "n", "d" >>, << "w", "e", "e", "k" >>,
       << "o", "f" >>, << "J", "a", "n" >>, << "2", "0", "2", "4" >> >>

AskLastWeek ==
    << << "s", "t", "a", "t", "e" >>, << "g", "o", "a" >>,
       << "a", "n", "d" >>, << "s", "t", "a", "t", "e" >>,
       << "b", "i", "h", "a", "r" >>, << "i", "n" >>, << "t", "h", "e" >>,
       << "l", "a", "s", "t" >>, << "w", "e", "e", "k" >>, << "o", "f" >>,
       << "d", "e", "c", "e", "m", "b", "e", "r" >>,
       << "2", "0", "2", "4" >> >>

\* Questions that match both patterns, in either order
AskWeeklyThenMonthly ==
    << << "s", "t", "a", "t", "e" >>, << "g", "o", "a" >>,
       << "a", "n", "d" >>, << "s", "t", "a", "t", "e" >>,
       << "b", "i", "h", "a", "r" >>, << "i", "n" >>, << "t", "h", "e" >>,
       << "f", "i", "r", "s", "t" >>, << "w", "e", "e", "k" >>,
       << "o", "f" >>, << "j", "a", "n", "u", "a", "r", "y" >>,
       << "2", "0", "2", "4" >>,
       << "d", "i", "s", "t", "r", "i", "c", "t" >>,
       << "a", "g", "r", "a" >>, << "i", "n" >>, << "e", "a", "c", "h" >>,
       << "a", "u", "g", "u", "s", "t" >>, << "f", "r", "o", "m" >>,
       << "y", "e", "a", "r" >>, << "2", "0", "0", "1" >>, << "t", "o" >>,
       << "2", "0", "0", "2" >> >>

AskMonthlyThenWeekly ==
    << << "d", "i", "s", "t", "r", "i", "c", "t" >>,
       << "a", "g", "r", "a" >>, << "i", "n" >>, << "e", "a", "c", "h" >>,
       << "a", "u", "g", "u", "s", "t" >>, << "f", "r", "o", "m" >>,
       << "y", "e", "a", "r" >>, << "2", "0", "0", "1" >>, << "t", "o" >>,
       << "2", "0", "0", "2" >>, << "a", "n", "d" >>,
       << "s", "t", "a", "t", "e" >>, << "g", "o", "a" >>,
       << "a", "n", "d" >>, << "s", "t", "a", "t", "e" >>,
       << "b", "i", "h", "a", "r" >>, << "i", "n" >>, << "t", "h", "e" >>,
       << "f", "i", "r", "s", "t" >>, << "w", "e", "e", "k" >>,
       << "o", "f" >>, << "j", "a", "n", "u", "a", "r", "y" >>,
       << "2", "0", "2", "4" >> >>

\* Questions that match neither
AskFreeText ==
    << << "h", "o", "w" >>, << "m", "u", "c", "h" >>,
       << "r", "a", "i", "n" >>, << "f", "e", "l", "l" >>, << "i", "n" >>,
       << "a", "g", "r", "a" >> >>

AskWithoutYearWord ==
    << << "d", "i", "s", "t", "r", "i", "c", "t" >>,
       << "a", "g", "r", "a" >>, << "i", "n" >>, << "e", "a", "c", "h" >>,
       << "a", "u", "g", "u", "s", "t" >>, << "f", "r", "o", "m" >>,
       << "2", "0", "0", "1" >>, << "t", "o" >>, << "2", "0", "0", "2" >> >>

AskOneState ==
    << << "s", "t", "a", "t", "e" >>, << "g", "o", "a" >>, << "i", "n" >>,
       << "t", "h", "e" >>, << "f", "i", "r", "s", "t" >>,
       << "w", "e", "e", "k" >>, << "o", "f" >>,
       << "j", "a", "n", "u", "a", "r", "y" >>, << "2", "0", "2", "4" >> >>

Questions ==
    { AskAgraTwoMonths, AskPuneAbbreviated, AskAgraNoYears, AskFirstWeekJanuary,
      AskFirstWeekMarch, AskSecondWeek, AskLastWeek, AskWeeklyThenMonthly,
      AskMonthlyThenWeekly, AskFreeText, AskWithoutYearWord, AskOneState }

SampleMonthly ==
    << MonthlyRow(2002, 8, Agra, 250), MonthlyRow(2001, 9, Agra, 125),
       MonthlyRow(2001, 8, Pune, 300) >>

SampleDaily ==
    << DailyRow(2024, 1, 1, Goa, 100), DailyRow(2024, 1, 2, Bihar, 50),
       DailyRow(2024, 1, 9, Goa, 25) >>

InitAnswer(questions, dailies, monthlies) ==
    /\ question \in questions
    /\ daily \in dailies
    /\ monthly \in monthlies
    /\ wx_pc = "parse"
    /\ intent = [type |-> "none"]
    /\ queries = << >>
    /\ answer = [text |-> [template |-> "none"], table |-> NoTable]
    /\ MtmIdle
    /\ ServerIdle

\* Monthly tables of at most MaxMonthly rows on two districts, one of them
\* in two spellings, over three years and two months.
MonthlyTables ==
    SeqsUpTo({ MonthlyRow(y, m, Agra, IF m = 8 THEN 125 ELSE 250) :
                 y \in { 2001, 2002, 2003 }, m \in { 8, 9 } }
             \cup { MonthlyRow(2001, 9, AGRA, 250), MonthlyRow(2002, 8, AGRA, 125),
                    MonthlyRow(2001, 8, Pune, 125), MonthlyRow(2002, 9, Pune, 250) },
             MaxMonthly)

InitMonthly == InitAnswer(Questions, { SampleDaily }, MonthlyTables)

SpecMonthly == InitMonthly /\ [][NextWeather]_vars

\* Daily tables of at most MaxDaily rows on days at both ends of 2024 and at
\* the start of 2025, on two states, one of them in two spellings; each day
\* has an amount of its own.
DailyDays ==
    { << 2024, 1, 1, 1 >>, << 2024, 1, 7, 2 >>, << 2024, 1, 8, 4 >>,
      << 2024, 12, 30, 8 >>, << 2025, 1, 1, 16 >> }

DailyTables ==
    SeqsUpTo({ DailyRow(day[1], day[2], day[3], st, day[4]) :
                 day \in DailyDays, st \in { Goa, GOA, Bihar } },
             MaxDaily)

InitWeekly ==
    InitAnswer({ AskFirstWeekJanuary, AskFirstWeekMarch, AskSecondWeek,
                 AskAgraTwoMonths, AskFreeText },
               DailyTables, { SampleMonthly })

SpecWeekly == InitWeekly /\ [][NextWeather]_vars

\* ================================================== valuation requests
\* compute_mtm_for_date as a function of the workbook it reads and of the
\* valuation_date argument: the steps of the call, in order.
compute_mtm_for_date(book, date_arg) ==
    IF price_sheet \notin book.sheets THEN Raise("ValueError", price_sheet)
    ELSE IF contracts_sheet \notin book.sheets THEN Raise("ValueError", contracts_sheet)
    ELSE LET p == _normalise_price_df(book.price)
             c == _normalise_contracts_df(book.contracts)
             given == IF IsNull(date_arg) THEN MaxPriceDate(p.val) ELSE date_arg
             vd == ToDatetime(given)
         IN  IF p.err # NoError THEN p
             ELSE IF c.err # NoError THEN c
             ELSE IF ~DateParses(given) THEN Raise("ValueError", "unparseable date")
             ELSE IF IsNull(vd) THEN Raise("AttributeError", "normalize")
             ELSE Return(Assemble(c.val,
                                  _lookup_base_price_for_contracts(p.val, c.val, vd),
                                  _compute_fe_adjustment_ratio(c.val),
                                  _compute_quantity_dmt(c.val), vd))

\* The files of the working directory.  A file is absent, empty (opened for
\* writing and not yet written), a workbook or a written report.
NoBook == Workbook({}, EmptyFrame, EmptyFrame)

Absent == [kind |-> "absent", book |-> NoBook, frame |-> EmptyFrame]

EmptyFile == [kind |-> "empty", book |-> NoBook, frame |-> EmptyFrame]

XlsxFile(book) == [kind |-> "xlsx", book |-> book, frame |-> EmptyFrame]

ReportFile(frame) == [kind |-> "report", book |-> NoBook, frame |-> frame]

\* Path(f"uploaded_{uploaded_file.name}")
UploadPath(name) == "uploaded_" \o name

DefaultPath == "Trading Case Example Data.xlsx"

ReportPath == "MTM_valuation_report_streamlit.xlsx"

FileNames == { "a.xlsx", "b.xlsx" }

Paths == { UploadPath(name) : name \in FileNames } \cup { DefaultPath, ReportPath }

\* pd.ExcelFile(path) on what the file holds at that moment
ReadWorkbook(file, date_arg) ==
    IF file.kind = "xlsx" THEN compute_mtm_for_date(file.book, date_arg)
    ELSE Raise("ValueError", "Excel file format cannot be determined")

SetRequest(r, at, mtm_df) == [requests EXCEPT ![r].at = at, ![r].mtm_df = mtm_df]

\* The form: use_default with the default file in the folder.
FormUseDefault(r) ==
    /\ requests[r].via = "form"
    /\ requests[r].at = "start"
    /\ requests[r].use_default
    /\ requests' =
           IF disk[DefaultPath].kind = "absent"
           THEN [requests EXCEPT ![r].at = "stopped"]
           ELSE [requests EXCEPT ![r].at = "saved", ![r].excel_path = DefaultPath]
    /\ UNCHANGED disk
    /\ UNCHANGED << mtm_vars, weather_vars >>

\* The form without a file: st.error and st.stop().
FormNoUpload(r) ==
    /\ requests[r].via = "form"
    /\ requests[r].at = "start"
    /\ ~requests[r].use_default
    /\ ~requests[r].uploaded
    /\ requests' = [requests EXCEPT ![r].at = "stopped"]
    /\ UNCHANGED disk
    /\ UNCHANGED << mtm_vars, weather_vars >>

\* _save_uploaded_file: path.write_bytes(data) opens the file for writing,
\* which empties it, ...
FormOpenUpload(r) ==
    /\ requests[r].via = "form"
    /\ requests[r].at = "start"
    /\ ~requests[r].use_default
    /\ requests[r].uploaded
    /\ disk' = [disk EXCEPT ![UploadPath(requests[r].name)] = EmptyFile]
    /\ requests' = [requests EXCEPT ![r].at = "writing",
                                    ![r].excel_path = UploadPath(requests[r].name)]
    /\ UNCHANGED << mtm_vars, weather_vars >>

\* ... and then writes the uploaded bytes.
FormWriteUpload(r) ==
    /\ requests[r].at = "writing"
    /\ disk' = [disk EXCEPT ![requests[r].excel_path] = XlsxFile(requests[r].data)]
    /\ requests' = [requests EXCEPT ![r].at = "saved"]
    /\ UNCHANGED << mtm_vars, weather_vars >>

\* generate_daily_mtm_report(excel_path=str(excel_path), ...): the workbook
\* is read from the path, whatever the file holds by now.
FormCompute(r) ==
    /\ requests[r].via = "form"
    /\ requests[r].at = "saved"
    /\ LET mtm_df == ReadWorkbook(disk[requests[r].excel_path], requests[r].date)
       IN  requests' = IF mtm_df.err # NoError
                       THEN SetRequest(r, "failed", mtm_df)
                       ELSE SetRequest(r, "computed", mtm_df)
    /\ UNCHANGED disk
    /\ UNCHANGED << mtm_vars, weather_vars >>

\* mtm_df.to_excel(output_path), then the frame is shown to the user.
FormWriteReport(r) ==
    /\ requests[r].via = "form"
    /\ requests[r].at = "computed"
    /\ disk' = [disk EXCEPT ![ReportPath] = ReportFile(requests[r].mtm_df.val)]
    /\ requests' = [requests EXCEPT ![r].at = "returned"]
    /\ UNCHANGED << mtm_vars, weather_vars >>

\* POST /api/trading/mtm: contents = await file.read()
ApiRead(r) ==
    /\ requests[r].via = "api"
    /\ requests[r].at = "start"
    /\ requests' = [requests EXCEPT ![r].at = "read"]
    /\ UNCHANGED disk
    /\ UNCHANGED << mtm_vars, weather_vars >>

\* generate_daily_mtm_report on BytesIO(contents), written to a BytesIO
ApiCompute(r) ==
    /\ requests[r].via = "api"
    /\ requests[r].at = "read"
    /\ LET df == compute_mtm_for_date(requests[r].data, requests[r].date)
       IN  requests' = IF df.err # NoError
                       THEN SetRequest(r, "failed", df)
                       ELSE SetRequest(r, "returned", df)
    /\ UNCHANGED disk
    /\ UNCHANGED << mtm_vars, weather_vars >>

\* The requests that run at the same time.
NumRequests == 2

NextRequests ==
    \E r \in 1..NumRequests :
        \/ FormUseDefault(r)
        \/ FormNoUpload(r)
        \/ FormOpenUpload(r)
        \/ FormWriteUpload(r)
        \/ FormCompute(r)
        \/ FormWriteReport(r)
        \/ ApiRead(r)
        \/ ApiCompute(r)

\* --------------------------------------------------- request inputs
\* Two workbooks that are valued differently, and one without a Price sheet.
BookAt100 ==
    Workbook(BothSheets, Sheet(PriceCols, SamplePrices),
             Sheet(ContractCols, << ContractRow(1, SampleContract) >>))

BookAt110 ==
    Workbook(BothSheets,
             Sheet(PriceCols, << PriceRow(Ts(0), IndexA, TenorX, Whole(110)) >>),
             Sheet(ContractCols, << ContractRow(1, SampleContract) >>))

BookWithoutPrices ==
    Workbook({ contracts_sheet }, EmptyFrame,
             Sheet(ContractCols, << ContractRow(1, SampleContract) >>))

Request(via, uploaded, name, data, use_default) ==
    [via |-> via, uploaded |-> uploaded, name |-> name, data |-> data,
     use_default |-> use_default, date |-> NULL, at |-> "start",
     excel_path |-> "", mtm_df |-> Return(EmptyFrame)]

NewRequests ==
    { Request("api", TRUE, "a.xlsx", book, FALSE) :
        book \in { BookAt100, BookAt110, BookWithoutPrices } }
    \cup { Request("form", TRUE, name, book, FALSE) :
             name \in FileNames, book \in { BookAt100, BookAt110 } }
    \cup { Request("form", FALSE, "", NoBook, FALSE),
           Request("form", TRUE, "a.xlsx", BookAt100, TRUE) }

InitRequests ==
    /\ requests \in [1..NumRequests -> NewRequests]
    /\ disk \in { [path \in Paths |-> IF path = DefaultPath THEN file ELSE Absent] :
                     file \in { Absent, XlsxFile(BookAt100) } }
    /\ MtmIdle
    /\ WeatherIdle

SpecRequests == InitRequests /\ [][NextRequests]_vars

\* ------------------------------------------------------------------ claims
Done == pc = "done"

Failed == pc = "failed"

Returned == Done \/ Failed

\* The cells of the call's input and output, by row number.
InPrice(j) == wb.price.rows[j]

InContract(i) == wb.contracts.rows[i]

Out(i) == result.rows[i]

NumPrices == Len(wb.price.rows)

NumContracts == Len(wb.contracts.rows)

\* The price records under contract i's key (both sides trimmed) that are
\* dated on or before the valuation date in use.
Applicable(i) ==
    { j \in 1..NumPrices :
        /\ Strip(AsStr(InPrice(j)[col_price_index_name]))
             = Strip(AsStr(InContract(i)[col_contract_index_name]))
        /\ Strip(AsStr(InPrice(j)[col_price_tenor]))
             = Strip(AsStr(InContract(i)[col_contract_tenor]))
        /\ InPrice(j)[col_price_date].tag = "ts"
        /\ InPrice(j)[col_price_date].n <= valuation_date.n }

Latest(i) ==
    { j \in Applicable(i) :
        \A k \in Applicable(i) :
            InPrice(k)[col_price_date].n <= InPrice(j)[col_price_date].n }

\* C1 as amended: the Base Index Price of a contract is the (numeric) price
\* of one of the records under its key with the greatest date on or before
\* the valuation date, and it is null when there is no such record; a record
\* dated after the valuation date is never the source.
C1_AsOfPrice ==
    Done =>
        \A i \in 1..NumContracts :
            IF Applicable(i) = {}
            THEN IsNull(Out(i)[col_base_index_price])
            ELSE \E j \in Latest(i) :
                    Out(i)[col_base_index_price] = ToNumeric(InPrice(j)[col_price_value])

\* C1 as stated: moreover the Base Index Price is null exactly when no record
\* under the key is dated on or before the valuation date.
C1_NullExactlyWhenNoRecord ==
    Done =>
        \A i \in 1..NumContracts :
            /\ IF Applicable(i) = {}
               THEN IsNull(Out(i)[col_base_index_price])
               ELSE \E j \in Latest(i) :
                       Out(i)[col_base_index_price]
                           = ToNumeric(InPrice(j)[col_price_value])
            /\ IsNull(Out(i)[col_base_index_price]) <=> Applicable(i) = {}

\* Two records under the contract's key with different prices, one on or
\* before the valuation date and one after it: the earlier one is resolved.
C1_Witness ==
    /\ Done
    /\ \E i \in 1..NumContracts : \E j \in Applicable(i) :
          \E k \in (1..NumPrices) \ Applicable(i) :
            /\ InPrice(k)[col_price_index_name] = InPrice(j)[col_price_index_name]
            /\ InPrice(k)[col_price_date].n > valuation_date.n
            /\ InPrice(k)[col_price_value] # InPrice(j)[col_price_value]
            /\ InPrice(j)[col_price_value].tag = "num"
            /\ Out(i)[col_base_index_price] = InPrice(j)[col_price_value]

\* The cost and the discount of contract i with their defaults: 0 and 1 for a
\* cell that holds no number.
CostUsed(i) ==
    IF col_contract_cost \in wb.contracts.cols
       /\ InContract(i)[col_contract_cost].tag = "num"
    THEN InContract(i)[col_contract_cost] ELSE Whole(0)

DiscountUsed(i) ==
    IF col_contract_discount \in wb.contracts.cols
       /\ InContract(i)[col_contract_discount].tag = "num"
    THEN InContract(i)[col_contract_discount] ELSE Whole(1)

\* C2: in every output row MTM Value = (Base Index Price * Fe Adjustment
\* Ratio + cost) * discount * Quantity (DMT) over that row's own derived
\* columns, with the cost and the discount at their defaults where the cell
\* holds no number, and MTM Value is null whenever Base Index Price is null.
C2_MtmFormula ==
    Done =>
        \A i \in 1..Len(result.rows) :
            /\ Out(i)[col_mtm_value] =
                 Mul(Mul(Add(Mul(Out(i)[col_base_index_price],
                                 Out(i)[col_fe_adjustment_ratio]),
                             CostUsed(i)),
                         DiscountUsed(i)),
                     Out(i)[col_quantity_dmt])
            /\ IsNull(Out(i)[col_base_index_price]) => IsNull(Out(i)[col_mtm_value])

\* (100 * 31/62 + 5) * 49/50 * 90 = 4851 beside a contract on an unmatched key.
C2_Witness ==
    /\ Done
    /\ \E i, k \in 1..Len(result.rows) :
          /\ Out(i)[col_base_index_price] = Whole(100)
          /\ Out(i)[col_fe_adjustment_ratio] = Num(1, 2)
          /\ Out(i)[col_quantity_dmt] = Whole(90)
          /\ Out(i)[col_mtm_value] = Whole(4851)
          /\ IsNull(Out(k)[col_base_index_price])
          /\ IsNull(Out(k)[col_mtm_value])

\* C3: the output has exactly one row per input contract, in input order,
\* whatever the price table holds.
C3_RowPerContract ==
    Done =>
        /\ Len(result.rows) = NumContracts
        /\ \A i \in 1..NumContracts :
              Out(i)[col_contract_id] = InContract(i)[col_contract_id]

\* Two contracts, the first on a key with two price rows, the second on a key
\* with none.
C3_Witness ==
    /\ Done
    /\ NumContracts = 2
    /\ Cardinality(Applicable(1)) = 2
    /\ Applicable(2) = {}
    /\ Len(result.rows) = 2
    /\ IsNull(Out(2)[col_base_index_price])


\* The text of a cell of contract i, or of the empty text when the sheet has
\* no such column.
HasContractCol(col) == col \in wb.contracts.cols

TextOf(i, col) == IF HasContractCol(col) THEN AsStr(InContract(i)[col]) ELSE <<>>

\* The number in a cell of contract i: null for an empty or non-numeric cell
\* and for an absent column.
NumberOf(i, col) == IF HasContractCol(col) THEN ToNumeric(InContract(i)[col]) ELSE NULL

\* r = t / 62, stated without the division.
IsGradeRatio(r, t) == r.tag = "num" /\ Mul(r, Whole(FeReference)) = t

\* C4 as amended: the ratio is 1.0 when the flag is "NOADJ" ignoring case and
\* surrounding blanks, or when Typical Fe is null, non-numeric or absent;
\* in every other case it is Typical Fe / 62.
C4_FeRatio ==
    Done =>
        \A i \in 1..NumContracts :
            IF \/ Upper(Strip(TextOf(i, col_contract_fe_adj_flag))) = NoAdj
               \/ IsNull(NumberOf(i, col_contract_typical_fe))
            THEN Out(i)[col_fe_adjustment_ratio] = Whole(1)
            ELSE IsGradeRatio(Out(i)[col_fe_adjustment_ratio],
                              NumberOf(i, col_contract_typical_fe))

\* C4 as stated: the flag overrides only when it equals "NOADJ" ignoring case.
C4_FlagIgnoringCaseOnly ==
    Done =>
        \A i \in 1..NumContracts :
            IF \/ Upper(TextOf(i, col_contract_fe_adj_flag)) = NoAdj
               \/ IsNull(NumberOf(i, col_contract_typical_fe))
            THEN Out(i)[col_fe_adjustment_ratio] = Whole(1)
            ELSE IsGradeRatio(Out(i)[col_fe_adjustment_ratio],
                              NumberOf(i, col_contract_typical_fe))

\* A mixed-case flag forces 1.0 on grade 31 beside an unflagged contract of
\* grade 31 at ratio 1/2.
C4_Witness ==
    /\ Done
    /\ \E i, k \in 1..NumContracts :
          /\ TextOf(i, col_contract_fe_adj_flag) = << "N", "o", "A", "d", "j" >>
          /\ NumberOf(i, col_contract_typical_fe) = Whole(31)
          /\ Out(i)[col_fe_adjustment_ratio] = Whole(1)
          /\ Upper(Strip(TextOf(k, col_contract_fe_adj_flag))) # NoAdj
          /\ NumberOf(k, col_contract_typical_fe) = Whole(31)
          /\ Out(k)[col_fe_adjustment_ratio] = Num(1, 2)

\* The moisture of contract i with its default: 0 for a cell that holds no
\* number and for an absent column.
MoistureUsed(i) == FillNa(NumberOf(i, col_contract_moisture), Whole(0))

UnitOf(i) == Strip(Upper(TextOf(i, col_contract_unit)))

\* C5: Quantity (DMT) is the quantity for unit "DMT", quantity * (1 -
\* moisture) for unit "WMT" with a null moisture read as 0, and the raw
\* quantity without a unit column; the unit is compared ignoring case and
\* surrounding blanks.
C5_QuantityDmt ==
    Done =>
        \A i \in 1..NumContracts :
            /\ ~HasContractCol(col_contract_unit) =>
                  Out(i)[col_quantity_dmt] = NumberOf(i, col_contract_quantity)
            /\ UnitOf(i) = << "D", "M", "T" >> =>
                  Out(i)[col_quantity_dmt] = NumberOf(i, col_contract_quantity)
            /\ UnitOf(i) = Wmt =>
                  Out(i)[col_quantity_dmt] =
                      Mul(NumberOf(i, col_contract_quantity),
                          Sub(Whole(1), MoistureUsed(i)))

\* A wet contract spelled " wmt " at moisture 1/10 converts 100 to 90 beside
\* a dry contract with the same moisture left at 100.
C5_Witness ==
    /\ Done
    /\ \E i, k \in 1..NumContracts :
          /\ TextOf(i, col_contract_unit) = << " ", "w", "m", "t", " " >>
          /\ NumberOf(i, col_contract_moisture) = Num(1, 10)
          /\ Out(i)[col_quantity_dmt] = Whole(90)
          /\ UnitOf(k) = << "D", "M", "T" >>
          /\ NumberOf(k, col_contract_moisture) = Num(1, 10)
          /\ Out(k)[col_quantity_dmt] = Whole(100)

\* The dates present in the Price sheet, and the cut-off the claims give the
\* price resolution: the argument, or the greatest date present.
PriceDates ==
    { InPrice(j)[col_price_date].n :
        j \in { k \in 1..NumPrices : InPrice(k)[col_price_date].tag = "ts" } }

IsGreatestPriceDate(t) == t \in PriceDates /\ \A u \in PriceDates : u <= t

SameKey(i, j) ==
    /\ Strip(AsStr(InPrice(j)[col_price_index_name]))
         = Strip(AsStr(InContract(i)[col_contract_index_name]))
    /\ Strip(AsStr(InPrice(j)[col_price_tenor]))
         = Strip(AsStr(InContract(i)[col_contract_tenor]))

\* The base price of contract i is resolved as of tick t.
ResolvedAsOf(i, t) ==
    LET upto == { j \in 1..NumPrices :
                    /\ SameKey(i, j)
                    /\ InPrice(j)[col_price_date].tag = "ts"
                    /\ InPrice(j)[col_price_date].n <= t }
    IN  IF upto = {} THEN IsNull(Out(i)[col_base_index_price])
        ELSE \E j \in upto :
                /\ \A k \in upto :
                      InPrice(k)[col_price_date].n <= InPrice(j)[col_price_date].n
                /\ Out(i)[col_base_index_price] = ToNumeric(InPrice(j)[col_price_value])

IsMidnightOf(stamp, t) ==
    /\ stamp.tag = "ts"
    /\ stamp.n % TicksPerDay = 0
    /\ stamp.n <= t
    /\ t < stamp.n + TicksPerDay

\* C6: without a valuation date the prices are resolved as of the greatest
\* date of the Price table, with one as of that date, and every output row
\* is stamped with the midnight of the date in use.
C6_ValuationDate ==
    Done =>
        \E t \in 0..(MaxTick + TicksPerDay) :
            /\ IF IsNull(valuation_date_arg)
               THEN IsGreatestPriceDate(t)
               ELSE valuation_date_arg = Ts(t)
            /\ \A i \in 1..NumContracts :
                  /\ ResolvedAsOf(i, t)
                  /\ IsMidnightOf(Out(i)[col_report_date], t)

\* No date given, two price dates, the later one past midnight: the contract
\* is priced at the later record and stamped with that day's midnight.
C6_Witness ==
    /\ Done
    /\ IsNull(valuation_date_arg)
    /\ NumContracts = 1
    /\ Cardinality(PriceDates) = 2
    /\ \E t \in PriceDates :
          /\ IsGreatestPriceDate(t)
          /\ t % TicksPerDay # 0
          /\ Out(1)[col_report_date] # Ts(t)
          /\ Cardinality(Applicable(1)) = 2
          /\ ~IsNull(Out(1)[col_base_index_price])

\* C7: without a valuation date and with an empty Price table the call fails
\* with a ConfigurationError and returns no table.
C7_ConfigurationError ==
    (Returned /\ IsNull(valuation_date_arg) /\ NumPrices = 0) =>
        /\ Failed
        /\ error.kind = "ConfigurationError"
        /\ result = EmptyFrame

\* The fields the call cannot do without, in the order it reads them, each
\* with the exception its absence raises.
Mandatory ==
    << [absent |-> price_sheet \notin wb.sheets,
        kind |-> "ValueError", what |-> price_sheet],
       [absent |-> contracts_sheet \notin wb.sheets,
        kind |-> "ValueError", what |-> contracts_sheet],
       [absent |-> col_price_date \notin wb.price.cols,
        kind |-> "KeyError", what |-> col_price_date],
       [absent |-> col_price_index_name \notin wb.price.cols,
        kind |-> "KeyError", what |-> col_price_index_name],
       [absent |-> col_price_tenor \notin wb.price.cols,
        kind |-> "KeyError", what |-> col_price_tenor],
       [absent |-> col_price_value \notin wb.price.cols,
        kind |-> "KeyError", what |-> col_price_value],
       [absent |-> col_contract_index_name \notin wb.contracts.cols,
        kind |-> "KeyError", what |-> col_contract_index_name],
       [absent |-> col_contract_tenor \notin wb.contracts.cols,
        kind |-> "KeyError", what |-> col_contract_tenor] >>

MandatoryAbsent == \E k \in 1..Len(Mandatory) : Mandatory[k].absent

FirstAbsent ==
    Mandatory[CHOOSE k \in 1..Len(Mandatory) :
                 /\ Mandatory[k].absent
                 /\ \A m \in 1..(k - 1) : ~Mandatory[m].absent]

\* C8 as amended: a workbook without the Price or the Contracts sheet, a
\* price column, or the contract index name or tenor column fails the call
\* with the ValueError (sheet) or KeyError (column) of the first such field
\* and returns no table; without the typical_fe or the quantity column the
\* call returns, with ratio 1.0 and with null Quantity (DMT) and MTM Value.
C8_MissingField ==
    Returned =>
        IF MandatoryAbsent
        THEN /\ Failed
             /\ result = EmptyFrame
             /\ error = [kind |-> FirstAbsent.kind, what |-> FirstAbsent.what]
        ELSE /\ Done
             /\ \A i \in 1..NumContracts :
                   /\ ~HasContractCol(col_contract_typical_fe) =>
                         Out(i)[col_fe_adjustment_ratio] = Whole(1)
                   /\ ~HasContractCol(col_contract_quantity) =>
                         /\ IsNull(Out(i)[col_quantity_dmt])
                         /\ IsNull(Out(i)[col_mtm_value])

\* C8 as stated, whatever the class of the exception: the absence of any
\* required field, typical_fe and quantity included, fails the call with an
\* error that names a missing field, and no table is returned.
C8_RequiredFieldFails ==
    (Returned /\ ( \/ MandatoryAbsent
                   \/ ~HasContractCol(col_contract_typical_fe)
                   \/ ~HasContractCol(col_contract_quantity) )) =>
        /\ Failed
        /\ result = EmptyFrame
        /\ error.what \in
              { Mandatory[k].what : k \in { m \in 1..Len(Mandatory) : Mandatory[m].absent } }
              \cup { col \in { col_contract_typical_fe, col_contract_quantity } :
                       ~HasContractCol(col) }

\* The Contracts sheet lacks its tenor column only: KeyError on "Tenor".
C8_Witness ==
    /\ Failed
    /\ wb.sheets = BothSheets
    /\ wb.price.cols = PriceCols
    /\ wb.contracts.cols = ContractCols \ { col_contract_tenor }
    /\ error = [kind |-> "KeyError", what |-> col_contract_tenor]
    /\ result = EmptyFrame

\* C9: the absence of any of fe_adj_flag, cost, discount, moisture and unit
\* never fails the call, and the value is computed with cost 0, discount 1,
\* no override of the ratio, moisture 0 and the raw quantity.
C9_OptionalDefaults ==
    /\ Failed => MandatoryAbsent
    /\ Done =>
         \A i \in 1..NumContracts :
            /\ ~HasContractCol(col_contract_cost) =>
                  Out(i)[col_mtm_value] =
                      Mul(Mul(Mul(Out(i)[col_base_index_price],
                                  Out(i)[col_fe_adjustment_ratio]),
                              DiscountUsed(i)),
                          Out(i)[col_quantity_dmt])
            /\ ~HasContractCol(col_contract_discount) =>
                  Out(i)[col_mtm_value] =
                      Mul(Add(Mul(Out(i)[col_base_index_price],
                                  Out(i)[col_fe_adjustment_ratio]),
                              CostUsed(i)),
                          Out(i)[col_quantity_dmt])
            /\ (/\ ~HasContractCol(col_contract_fe_adj_flag)
                /\ ~IsNull(NumberOf(i, col_contract_typical_fe))) =>
                  IsGradeRatio(Out(i)[col_fe_adjustment_ratio],
                               NumberOf(i, col_contract_typical_fe))
            /\ ( \/ ~HasContractCol(col_contract_moisture)
                 \/ ~HasContractCol(col_contract_unit) ) =>
                  Out(i)[col_quantity_dmt] = NumberOf(i, col_contract_quantity)

\* None of the five optional columns: (100 * 31/62 + 0) * 1 * 100 = 5000.
C9_Witness ==
    /\ Done
    /\ wb.contracts.cols = ContractCols \ OptionalContractCols
    /\ Out(1)[col_fe_adjustment_ratio] = Num(1, 2)
    /\ Out(1)[col_quantity_dmt] = Whole(100)
    /\ Out(1)[col_mtm_value] = Whole(5000)

\* Unparseable text where a date is read.
IsBadDate(c) == c.tag = "str" /\ ~IsNumeral(c.s)

BadPriceDate ==
    \E j \in 1..NumPrices : IsBadDate(InPrice(j)[col_price_date])

\* C10 as amended: an unparseable date in the Price date column or in the
\* valuation_date argument fails the call with a ValueError and no table;
\* a non-numeric cell of a numeric field fails nothing: where the dates
\* parse and give a valuation date, the call returns every contract, with
\* that cell null.
C10_Formats ==
    Returned =>
        IF BadPriceDate \/ IsBadDate(valuation_date_arg)
        THEN /\ Failed
             /\ error.kind = "ValueError"
             /\ result = EmptyFrame
        ELSE (~IsNull(valuation_date_arg) \/ PriceDates # {}
                 \/ \E j \in 1..NumPrices : InPrice(j)[col_price_date].tag = "str") =>
                /\ Done
                /\ Len(result.rows) = NumContracts
                /\ \A i \in 1..NumContracts : \A col \in NumericContractCols :
                      InContract(i)[col].tag = "str" /\ ~IsNumeral(InContract(i)[col].s)
                          => IsNull(Out(i)[col])

\* C10 as stated: the failure is a DataFormatError.
C10_DataFormatError ==
    (Returned /\ (BadPriceDate \/ IsBadDate(valuation_date_arg))) =>
        /\ Failed
        /\ error.kind = "DataFormatError"
        /\ result = EmptyFrame

\* A contract whose five numeric cells are all text is returned with null
\* cells, valued as of a date given as text.
C10_Witness ==
    /\ Done
    /\ valuation_date_arg = DayOne
    /\ valuation_date = Ts(TicksPerDay)
    /\ NumContracts = 1
    /\ \A col \in NumericContractCols :
          InContract(1)[col] = Garbage /\ IsNull(Out(1)[col])
    /\ IsNull(Out(1)[col_mtm_value])

\* An unparseable valuation_date argument over a well-formed workbook.
C10_WitnessBadArgument ==
    /\ Failed
    /\ ~BadPriceDate
    /\ IsBadDate(valuation_date_arg)
    /\ error.kind = "ValueError"

\* ------------------------------------------------------------------ C11
\* An operand of contract i as the composer reads it from the sheets.
NullOperand(i) ==
    \/ IsNull(Out(i)[col_base_index_price])
    \/ IsNull(NumberOf(i, col_contract_typical_fe))
    \/ IsNull(NumberOf(i, col_contract_cost))
    \/ IsNull(NumberOf(i, col_contract_discount))
    \/ IsNull(NumberOf(i, col_contract_quantity))

\* C11 (as amended): the call returns one row per contract without an
\* exception; the MTM Value of a row is null exactly when its Base Index Price
\* or its quantity is null, and an empty typical_fe, cost or discount is
\* replaced by the ratio 1.0, the cost 0.0 and the discount 1.0.
C11_NullOperands ==
    Returned =>
        /\ Done
        /\ Len(result.rows) = NumContracts
        /\ \A i \in 1..NumContracts :
              LET base == Out(i)[col_base_index_price]
                  qty == NumberOf(i, col_contract_quantity)
              IN  /\ IsNull(Out(i)[col_mtm_value]) <=> (IsNull(base) \/ IsNull(qty))
                  /\ IsNull(NumberOf(i, col_contract_typical_fe)) =>
                        Out(i)[col_fe_adjustment_ratio] = Whole(1)
                  /\ ~IsNull(Out(i)[col_mtm_value]) =>
                        Out(i)[col_mtm_value] =
                            MtmValue(base, Out(i)[col_fe_adjustment_ratio],
                                     FillNa(NumberOf(i, col_contract_cost), Whole(0)),
                                     FillNa(NumberOf(i, col_contract_discount), Whole(1)),
                                     Out(i)[col_quantity_dmt])

\* C11 (as stated): a null base price, typical_fe, cost, discount or quantity
\* gives a null MTM Value on a row that is still present, without exception.
C11_AnyNullOperand ==
    Returned =>
        /\ Done
        /\ Len(result.rows) = NumContracts
        /\ \A i \in 1..NumContracts :
              NullOperand(i) => IsNull(Out(i)[col_mtm_value])

\* A report with a row valued on a defaulted discount beside a row whose
\* quantity is empty.
C11_Witness ==
    /\ Done
    /\ \E i, j \in 1..NumContracts :
          /\ IsNull(NumberOf(i, col_contract_discount))
          /\ ~IsNull(Out(i)[col_mtm_value])
          /\ IsNull(NumberOf(j, col_contract_quantity))
          /\ ~IsNull(Out(j)[col_base_index_price])
          /\ IsNull(Out(j)[col_mtm_value])

\* ------------------------------------------------------------------ C16
\* Two cell texts are equal once the surrounding blanks are trimmed.
TrimmedEqual(a, b) == Strip(a) = Strip(b)

\* The price records whose key is the key of contract i up to blanks.
KeyMatches(i) ==
    { j \in 1..NumPrices :
        /\ TrimmedEqual(TextOf(i, col_contract_index_name),
                        AsStr(InPrice(j)[col_price_index_name]))
        /\ TrimmedEqual(TextOf(i, col_contract_tenor),
                        AsStr(InPrice(j)[col_price_tenor])) }

\* The price records whose key is the key of contract i up to blanks and
\* letter case, but not up to blanks alone.
CaseNearMisses(i) ==
    { j \in (1..NumPrices) \ KeyMatches(i) :
        /\ Upper(Strip(TextOf(i, col_contract_index_name)))
             = Upper(Strip(AsStr(InPrice(j)[col_price_index_name])))
        /\ Upper(Strip(TextOf(i, col_contract_tenor)))
             = Upper(Strip(AsStr(InPrice(j)[col_price_tenor]))) }

\* C16: the key comparison is exact after trimming on both sides and it is
\* case-sensitive: a contract resolves to the price of a record whose index
\* name and tenor are its own up to surrounding blanks, never to a record
\* that differs by letter case (null when only such records exist), and the
\* index name and the tenor are reported trimmed with their case unchanged.
C16_KeyComparison ==
    Done =>
        \A i \in 1..NumContracts :
            /\ IF KeyMatches(i) = {}
               THEN IsNull(Out(i)[col_base_index_price])
               ELSE \E j \in KeyMatches(i) :
                       Out(i)[col_base_index_price] = InPrice(j)[col_price_value]
            /\ \A j \in CaseNearMisses(i) :
                   Out(i)[col_base_index_price] # InPrice(j)[col_price_value]
            /\ Out(i)[col_contract_index_name]
                 = Str(Strip(TextOf(i, col_contract_index_name)))
            /\ Out(i)[col_contract_tenor] = Str(Strip(TextOf(i, col_contract_tenor)))

\* One contract resolved through a record whose key has other blanks, beside
\* a contract left without a price by a record that differs by case alone.
C16_Witness ==
    /\ Done
    /\ \E i, k \in 1..NumContracts :
          /\ \E j \in KeyMatches(i) :
                /\ AsStr(InPrice(j)[col_price_index_name])
                     # TextOf(i, col_contract_index_name)
                /\ Out(i)[col_base_index_price] = InPrice(j)[col_price_value]
          /\ KeyMatches(k) = {}
          /\ CaseNearMisses(k) # {}
          /\ IsNull(Out(k)[col_base_index_price])

\* ------------------------------------------------------------------ C17
\* The index name or the tenor cell of contract i is empty.
NullKey(i) ==
    \/ IsNull(InContract(i)[col_contract_index_name])
    \/ IsNull(InContract(i)[col_contract_tenor])

\* C17: a contract whose index name or tenor cell is empty never gets a
\* non-null Base Index Price, nor a non-null MTM Value, whatever the Price
\* table holds.
C17_NullKeyNeverResolves ==
    Done =>
        \A i \in 1..NumContracts :
            NullKey(i) =>
                /\ IsNull(Out(i)[col_base_index_price])
                /\ IsNull(Out(i)[col_mtm_value])

\* ------------------------------------------------------------------ C12
Answered == wx_pc = "done"

MatchesA == Pattern1Matches(LowerWords(question)) # {}

MatchesB == Pattern2Matches(LowerWords(question)) # {}

\* C12: the first matching pattern wins.  A question that matches pattern A
\* is handled as monthly_district (one monthly query, a monthly answer) even
\* when it matches pattern B too; one that matches pattern B only is handled
\* as weekly_state_compare; one that matches neither gets the fixed apology
\* and no table, no query is executed and no parameter is filled in.
C12_FirstMatchWins ==
    Answered =>
        /\ MatchesA =>
              /\ intent.type = "monthly_district"
              /\ Len(queries) = 1
              /\ queries[1].fn = "query_monthly_precip_by_district"
              /\ answer.text.template \in { "Total precipitation in district",
                                            "No monthly precipitation data found" }
        /\ (~MatchesA /\ MatchesB) =>
              /\ intent.type = "weekly_state_compare"
              /\ Len(queries) = 2
              /\ \A n \in 1..2 : queries[n].fn = "query_weekly_precip_by_state"
              /\ answer.text.template \in { "In week",
                                            "No weekly precipitation data found" }
        /\ (~MatchesA /\ ~MatchesB) =>
              /\ intent = [type |-> "unknown"]
              /\ queries = << >>
              /\ answer = [text |-> [template |-> "I could not understand this question"],
                           table |-> NoTable]

\* A question that matches both patterns, pattern B first in the text,
\* answered from the Monthly table.
C12_Witness ==
    /\ Answered
    /\ MatchesA
    /\ MatchesB
    /\ question = AskWeeklyThenMonthly
    /\ answer.text.template = "Total precipitation in district"
    /\ ~answer.table.null

\* ------------------------------------------------------------------ C13
\* The Monthly records that a pattern-A question asks for: the district up
\* to letter case, a month of the list, a year of the closed range.
Asked(r) ==
    /\ Lower(r.district) = Lower(intent.district)
    /\ \E k \in 1..Len(intent.months) : intent.months[k] = r.month
    /\ intent.start_year <= r.year
    /\ r.year <= intent.end_year

AskedRecords == { n \in 1..Len(monthly) : Asked(monthly[n]) }

\* The table holds the asked records, each as often as the Monthly table
\* does, in ascending (year, month) order.
IsAskedTable(rows) ==
    /\ Len(rows) = Cardinality(AskedRecords)
    /\ \A n \in AskedRecords :
          Cardinality({ k \in 1..Len(rows) : rows[k] = monthly[n] })
            = Cardinality({ m \in AskedRecords : monthly[m] = monthly[n] })
    /\ \A a, b \in 1..Len(rows) : a < b => ~MonthlyLess(rows[b], rows[a])

AskedTotal == SumPrecip(SelectSeq(monthly, Asked))

\* C13 (as amended): when some Monthly record is asked for, the table is the
\* asked records in (year, month) order and the text states their sum; when
\* none is, the table is null and the text says that no data was found.
C13_MonthlyTable ==
    (Answered /\ intent.type = "monthly_district") =>
        IF AskedRecords = {}
        THEN /\ answer.table = NoTable
             /\ answer.text.template = "No monthly precipitation data found"
        ELSE /\ ~answer.table.null
             /\ IsAskedTable(answer.table.rows)
             /\ answer.text.template = "Total precipitation in district"
             /\ answer.text.total = Format2f(AskedTotal)

\* C13 (as stated): the table is always the asked records in (year, month)
\* order and the text always states their sum.
C13_AlwaysATable ==
    (Answered /\ intent.type = "monthly_district") =>
        /\ ~answer.table.null
        /\ IsAskedTable(answer.table.rows)
        /\ answer.text.template = "Total precipitation in district"
        /\ answer.text.total = Format2f(AskedTotal)

\* Two asked records, the later one first in the Monthly table and one of
\* them under another spelling of the district, returned in order with
\* their sum.
C13_Witness ==
    /\ Answered
    /\ intent.type = "monthly_district"
    /\ Len(monthly) = 2
    /\ AskedRecords = { 1, 2 }
    /\ MonthlyLess(monthly[2], monthly[1])
    /\ monthly[1].district # monthly[2].district
    /\ monthly[2].year = intent.end_year
    /\ answer.table.rows = << monthly[2], monthly[1] >>
    /\ answer.text.total = Format2f(monthly[1].precip + monthly[2].precip)

\* ------------------------------------------------------------------ C14
\* The sum of Daily Precipitation over the Daily records of a state, named
\* up to letter case, in the ISO week iso_week of the ISO year iso_year.
RECURSIVE IsoWeekTotal(_, _, _, _)
IsoWeekTotal(rows, state, iso_year, iso_week) ==
    IF rows = << >> THEN 0
    ELSE (IF /\ Lower(Head(rows).state) = Lower(state)
             /\ IsoCalendar(Head(rows).date) = [year |-> iso_year, week |-> iso_week]
          THEN Head(rows).precip ELSE 0)
             + IsoWeekTotal(Tail(rows), state, iso_year, iso_week)

\* C14: every pattern-B question is answered with a table of exactly two
\* rows, one per named state in question order, and the total of each row
\* is the sum of Daily Precipitation over all Daily records of that state
\* in the requested ISO week of the requested year; the month named in the
\* question has no part in it.
C14_TwoRowComparison ==
    (Answered /\ intent.type = "weekly_state_compare") =>
        /\ ~answer.table.null
        /\ Len(answer.table.rows) = 2
        /\ answer.table.rows[1].state = intent.state_a
        /\ answer.table.rows[2].state = intent.state_b
        /\ \A n \in 1..2 :
              answer.table.rows[n].total =
                  IsoWeekTotal(daily, answer.table.rows[n].state,
                               intent.year, intent.iso_week)

\* ------------------------------------------------------------------ C18
\* The two dates lie in one span from a Monday to the next Sunday.
SameMondayWeek(d1, d2) == (ToOrdinal(d1) - 1) \div 7 = (ToOrdinal(d2) - 1) \div 7

\* The Daily records summed into the weekly totals of a state.
Contributing(state) == WeeklyFiltered(daily, state, intent.year, intent.iso_week)

\* C18: the Daily records that are summed into one weekly total all belong
\* to one ISO week: their dates lie within one span of seven consecutive
\* days from a Monday to a Sunday.
C18_OneIsoWeek ==
    (Answered /\ intent.type = "weekly_state_compare") =>
        \A state \in { intent.state_a, intent.state_b } :
            \A a, b \in 1..Len(Contributing(state)) :
                Contributing(state)[a].state = Contributing(state)[b].state =>
                    SameMondayWeek(Contributing(state)[a].date,
                                   Contributing(state)[b].date)

\* ------------------------------------------------------------------ C15
\* C15: under any interleaving of valuation requests, the rows returned to
\* a request that uploaded a spreadsheet are the valuation of that request's
\* own spreadsheet at its own valuation date, never of data written by
\* another request.
C15_OwnUploadOnly ==
    \A r \in 1..Len(requests) :
        (requests[r].at = "returned" /\ ~requests[r].use_default) =>
            requests[r].mtm_df = compute_mtm_for_date(requests[r].data, requests[r].date)
====
